---- MODULE Spec2Model ----
(***************************************************************************)
(* A model of the Snort connector of SentinelAI: the log tail reader       *)
(* (tools/snort_connector.py, SnortLogWatcher.process_new_alerts and the   *)
(* poll / watch schedulers) and, further down, the persistent store        *)
(* (tools/db_connector.py) with single delivery and the retry sweep.       *)
(*                                                                         *)
(* The specifications of the module:                                       *)
(*   SpecTail / FairTail  the tail reader over a byte-level log file       *)
(*   Spec                 the store, delivery and retry sweep              *)
(*   SpecUpsert           store_threat / store_batch under direct callers  *)
(*   SpecJobs             batch jobs (app/api/endpoints/threats.py and     *)
(*                        app/services/threat_detection.py)                *)
(*   SpecRace             concurrent writers of the store                  *)
(*   SpecParse            one poll over a log of well-formed and malformed *)
(*                        alert blocks                                     *)
(*   SpecStats            Spec with get_stats                              *)
(*   SpecOutage           the store operations while the database cannot   *)
(*                        be opened or a statement fails                   *)
(*   SpecShutdown         the tail and retry threads under an interrupt    *)
(*   SpecClassify         the inferred protocol, the behavior tag, the     *)
(*                        heuristic severity, the techniques and           *)
(*                        analyze_threat as functions of their arguments   *)
(*   FairSweep            the store with the retry round under weak        *)
(*                        fairness                                         *)
(*   FairParse            SpecParse with the polls under weak fairness     *)
(*   SpecRestart          SpecParse started on the database file of an     *)
(*                        earlier run                                      *)
(* Each leaves the variables of the others unchanged.                      *)
(***************************************************************************)
EXTENDS Integers, Sequences, FiniteSets, TLC

(***************************************************************************)
(* Bounds of the model.                                                    *)
(***************************************************************************)
\* alert blocks the sensor writes to the log
MaxBlocks == 2
\* log rotations / truncations the environment performs
MaxRotations == 1

(***************************************************************************)
(* The log file.  A byte is NL (a newline) or the number k >= 1 of the     *)
(* alert block it belongs to.  The sensor writes block k as two lines      *)
(* followed by a blank line: k NL k NL NL.                                 *)
(***************************************************************************)
NL == 0

AlertText(k) == <<k, NL, k>>

AlertBlock(k) == AlertText(k) \o <<NL, NL>>

BlockLen == Len(AlertBlock(1))

StreamLen == MaxBlocks * BlockLen

\* the i-th byte (1-based) the sensor ever writes
StreamByte(i) == AlertBlock(((i - 1) \div BlockLen) + 1)[((i - 1) % BlockLen) + 1]

VARIABLES
    \* ---- tail reader ----
    file,           \* content of the file at log_path
    wpos,           \* bytes the sensor has written so far (over all rotations)
    rotations,      \* rotations performed
    mode,           \* args.watch: "watch" or "poll"
    main_pc,        \* main(): "startup" (initial poll pending) or "loop"
    notified,       \* a file-modified event is queued for the observer
    poll_pc,        \* process_new_alerts: "idle" or "read" (size measured)
    last_position,  \* SnortLogWatcher.last_position
    current_size,   \* local current_size of the poll in progress
    truncated,      \* the poll in progress reset last_position to 0
    last_read,      \* history: offsets the last read yielded, and the mark before it
    hwm,            \* history: end of the bytes yielded since the last reset
    handed,         \* history: blocks handed whole to the parser
    unread_lost     \* history: a rotation removed bytes the reader had not reached

tailVars == <<file, wpos, rotations, mode, main_pc, notified, poll_pc,
              last_position, current_size, truncated, last_read, hwm, handed,
              unread_lost>>

VARIABLES
    \* ---- store, delivery, retry sweep ----
    batch_mode,     \* args.batch_mode
    local_behind_utc, \* the host's zone is west of UTC: now() sorts before utcnow()
    now,            \* the wall clock, in seconds (int(time.time()))
    threats,        \* table threats: its rows in creation_time order
    ledger,         \* table submission_attempts: its rows in insertion order
    pending_alerts, \* SnortLogWatcher.pending_alerts
    mark_log,       \* history: the calls of mark_as_submitted, in order
    sent,           \* history: per record id, single deliveries that went out
    last_send,      \* history: the send_alert call that ended the last step, if any
    last_sweep,     \* history: what the retry round that was the last step did
    last_flush      \* history: the send_batch requests of the last step, in order

storeVars == <<batch_mode, local_behind_utc, now, threats, ledger, pending_alerts, mark_log,
               sent, last_send, last_sweep, last_flush>>

(***************************************************************************)
(* The callers of the store other than the tail loop: the history of the   *)
(* records handed to store_threat and store_batch by a direct caller.      *)
(***************************************************************************)
VARIABLES
    writes            \* the records stored so far, in call order

callerVars == <<writes>>

(***************************************************************************)
(* One batch job: the job of POST /batch-analyze, worked by process_batch  *)
(* on the module's _job_statuses, or a job of ThreatDetectionService,      *)
(* worked by process_batch_analysis on Redis and the service's _job_cache. *)
(***************************************************************************)
VARIABLES
    worker,         \* the function that works the job
    job_threats,    \* the items of the job: does the analysis of item k raise?
    job_pc,         \* where the job stands: none, accepted, loop, update, done
    idx,            \* the items the worker's loop has taken so far
    results,        \* the worker's local list results
    job_data,       \* _job_statuses[job_id], or the worker's dict job_data
    redis_job,      \* the value under threat_job:<job_id> in Redis
    cached,         \* _job_cache[job_id] is the worker's dict job_data
    seen,           \* history: the answers of the status queries, in order
    asked           \* history: the calls of get_job_status: who asked, the answer

jobVars == <<worker, job_threats, job_pc, idx, results, job_data, redis_job,
             cached, seen, asked>>

(***************************************************************************)
(* Threads that write to the store at the same time, each through its own  *)
(* SQLite connection.                                                      *)
(***************************************************************************)
VARIABLES
    sessions        \* per writer: its call, how far it is, what it read

raceVars == <<sessions>>

(***************************************************************************)
(* The tail loop over a log whose alert blocks differ in shape: what the   *)
(* last call of process_new_alerts read and did with every alert.          *)
(***************************************************************************)
VARIABLES
    last_poll       \* history: the poll that was the last step, if any

parseVars == <<last_poll>>

(***************************************************************************)
(* A store operation while the storage may be unavailable: the call in     *)
(* progress, from its first connection attempt to its return.              *)
(***************************************************************************)
VARIABLES
    store_call,     \* the call of a store operation that is in progress
    finished        \* history: the calls that returned, in order

outageVars == <<store_call, finished>>

(***************************************************************************)
(* The threads of the connector around a shutdown signal: the thread that  *)
(* runs process_new_alerts (the main thread in poll mode, the observer's   *)
(* thread in watch mode) and the daemon thread of retry_unsent_alerts.     *)
(***************************************************************************)
VARIABLES
    watch,          \* args.watch
    retry_unsent,   \* args.retry_unsent
    tail_pc,        \* where process_new_alerts stands
    tail_left,      \* alerts of the poll in progress that are not handled yet
    retry_pc,       \* where retry_unsent_alerts stands
    stopping,       \* KeyboardInterrupt was raised in the main thread
    exited,         \* the process has ended
    exit_log,       \* history: where the threads stood when the process ended
    begun_after     \* history: operations begun after the interrupt

shutdownVars == <<watch, retry_unsent, tail_pc, tail_left, retry_pc, stopping,
                  exited, exit_log, begun_after>>

(***************************************************************************)
(* One call of a function of the classification path, from its arguments   *)
(* to what it returns.                                                     *)
(***************************************************************************)
VARIABLES
    args,           \* the function that is called and its arguments
    returned        \* what the call returned, once it has

classifyVars == <<args, returned>>

\* the variables of the specifications added after the first five
extVars == <<parseVars, outageVars, shutdownVars, classifyVars>>

(***************************************************************************)
(* get_stats: the statistics of the store as a caller sees them.           *)
(***************************************************************************)
VARIABLES
    stats           \* history: the answer of get_stats, if it was the last step

statsVars == <<stats>>

vars == <<tailVars, storeVars, callerVars, jobVars, raceVars, extVars, statsVars>>

Max(a, b) == IF a >= b THEN a ELSE b

(***************************************************************************)
(* new_content.split('\n\n'), a.strip(), and the filter "if a.strip()".    *)
(***************************************************************************)
RECURSIVE SplitBlank(_, _, _, _)
SplitBlank(s, i, cur, acc) ==
    IF i > Len(s) THEN Append(acc, cur)
    ELSE IF i < Len(s) /\ s[i] = NL /\ s[i + 1] = NL
         THEN SplitBlank(s, i + 2, <<>>, Append(acc, cur))
         ELSE SplitBlank(s, i + 1, Append(cur, s[i]), acc)

RECURSIVE LStrip(_)
LStrip(s) == IF s # <<>> /\ Head(s) = NL THEN LStrip(Tail(s)) ELSE s

RECURSIVE RStrip(_)
RStrip(s) ==
    IF s # <<>> /\ s[Len(s)] = NL THEN RStrip(SubSeq(s, 1, Len(s) - 1)) ELSE s

Strip(s) == RStrip(LStrip(s))

SplitAlerts(new_content) ==
    LET parts == SplitBlank(new_content, 1, <<>>, <<>>)
        stripped == [i \in 1..Len(parts) |-> Strip(parts[i])]
    IN  SelectSeq(stripped, LAMBDA a : a # <<>>)

\* f.seek(last_position); f.read(): everything from the offset to end of file
ReadFrom(f, pos) == IF pos >= Len(f) THEN <<>> ELSE SubSeq(f, pos + 1, Len(f))

\* the blocks among the alerts of one read that are a whole alert block
WholeBlocks(alerts) ==
    {k \in 1..MaxBlocks : \E i \in 1..Len(alerts) : alerts[i] = AlertText(k)}

(***************************************************************************)
(* Initial state: SnortLogWatcher.__init__ sets last_position = 0; the log *)
(* exists and is empty; main() has not yet run its first poll.             *)
(***************************************************************************)
TailInit ==
    /\ file = <<>>
    /\ wpos = 0
    /\ rotations = 0
    /\ mode \in {"poll", "watch"}
    /\ main_pc = "startup"
    /\ notified = FALSE
    /\ poll_pc = "idle"
    /\ last_position = 0
    /\ current_size = 0
    /\ truncated = FALSE
    /\ last_read = [from |-> 0, to |-> 0, reset |-> FALSE, mark |-> 0]
    /\ hwm = 0
    /\ handed = {}
    /\ unread_lost = FALSE

(***************************************************************************)
(* Environment: the sensor appends the next byte of its stream; the        *)
(* filesystem may or may not deliver a modification event for it (events   *)
(* exist only once the observer runs).                                     *)
(***************************************************************************)
SensorAppend ==
    /\ wpos < StreamLen
    /\ file' = Append(file, StreamByte(wpos + 1))
    /\ wpos' = wpos + 1
    /\ \E delivered \in BOOLEAN :
          notified' = IF mode = "watch" /\ main_pc = "loop" /\ delivered
                      THEN TRUE ELSE notified
    /\ UNCHANGED <<rotations, mode, main_pc, poll_pc, last_position,
                   current_size, truncated, last_read, hwm, handed, unread_lost>>
    /\ UNCHANGED <<storeVars, callerVars, jobVars, raceVars, extVars, statsVars>>

\* Environment: the log is rotated between two blocks; the new file is empty.
LogRotate ==
    /\ rotations < MaxRotations
    /\ file # <<>>
    /\ wpos % BlockLen = 0
    /\ file' = <<>>
    /\ rotations' = rotations + 1
    /\ unread_lost' = (unread_lost \/ poll_pc # "idle" \/ last_position < Len(file))
    /\ \E delivered \in BOOLEAN :
          notified' = IF mode = "watch" /\ main_pc = "loop" /\ delivered
                      THEN TRUE ELSE notified
    /\ UNCHANGED <<wpos, mode, main_pc, poll_pc, last_position,
                   current_size, truncated, last_read, hwm, handed>>
    /\ UNCHANGED <<storeVars, callerVars, jobVars, raceVars, extVars, statsVars>>

(***************************************************************************)
(* process_new_alerts, first half: measure the size, reset the cursor on   *)
(* truncation, return when there is nothing new.                           *)
(***************************************************************************)
MeasureSize ==
    /\ poll_pc = "idle"
    /\ current_size' = Len(file)
    /\ LET reset == Len(file) < last_position
           pos == IF reset THEN 0 ELSE last_position
       IN  /\ truncated' = reset
           /\ hwm' = IF reset THEN 0 ELSE hwm
           /\ IF Len(file) = pos
              THEN /\ poll_pc' = "idle"
                   /\ last_position' = pos
              ELSE /\ poll_pc' = "read"
                   /\ last_position' = pos
    /\ main_pc' = "loop"
    /\ UNCHANGED <<file, wpos, rotations, mode, last_read, handed, unread_lost>>
    /\ UNCHANGED <<storeVars, callerVars, jobVars, raceVars, extVars, statsVars>>

(***************************************************************************)
(* process_new_alerts, second half: read from the cursor to end of file,   *)
(* set the cursor to the size measured before, split into alerts.          *)
(***************************************************************************)
ReadNewContent ==
    /\ poll_pc = "read"
    /\ LET new_content == ReadFrom(file, last_position)
           alerts == SplitAlerts(new_content)
       IN  /\ last_read' = [from |-> last_position,
                            to |-> last_position + Len(new_content),
                            reset |-> truncated,
                            mark |-> hwm]
           /\ hwm' = Max(hwm, last_position + Len(new_content))
           /\ handed' = handed \cup WholeBlocks(alerts)
    /\ last_position' = current_size
    /\ poll_pc' = "idle"
    /\ UNCHANGED <<file, wpos, rotations, mode, main_pc, notified,
                   current_size, truncated, unread_lost>>
    /\ UNCHANGED <<storeVars, callerVars, jobVars, raceVars, extVars, statsVars>>

\* main(): "Process any existing alerts", before the scheduler starts
MainInitialPoll ==
    /\ main_pc = "startup"
    /\ MeasureSize
    /\ UNCHANGED notified

\* poll_mode: process_new_alerts every poll_interval seconds
PollModeTick ==
    /\ mode = "poll"
    /\ main_pc = "loop"
    /\ MeasureSize
    /\ UNCHANGED notified

\* SnortLogWatcher.on_modified, called by the observer for a queued event
OnModified ==
    /\ mode = "watch"
    /\ main_pc = "loop"
    /\ notified
    /\ notified' = FALSE
    /\ MeasureSize

\* watch_mode: the main thread only sleeps; it never polls
WatchModeTick ==
    /\ mode = "watch"
    /\ main_pc = "loop"
    /\ poll_pc = "idle"
    /\ UNCHANGED vars

NextTail ==
    \/ SensorAppend
    \/ LogRotate
    \/ MainInitialPoll
    \/ PollModeTick
    \/ OnModified
    \/ WatchModeTick
    \/ ReadNewContent


(***************************************************************************)
(* The store (tools/db_connector.py), single and batch delivery, and the   *)
(* retry sweep.  The connector runs with its database available and with   *)
(* AI analysis off (the defaults); ids are tuples, '' is the empty tuple.  *)
(***************************************************************************)
\* more bounds of the model
MaxTime == 1
MaxAlerts == 2
MaxLedger == 2
MaxPending == 2
\* --batch-size as configured for the model
BatchSize == 2

\* DEFAULT_CONFIG["retry_limit"]
RetryLimit == 3

\* the deliveries by the retry sweep that are followed: one more than the
\* limit allows to one record
MaxRetries == RetryLimit + 1

\* get_unsent_threats(limit=50)
UnsentLimit == 50

SourceIps == {"10.0.0.1"}

EmptyId == <<>>

\* store_batch: f"threat_{int(time.time())}_{hash(threat_data['source_ip'])}"
GenId(t, ip) == <<"threat", t, ip>>

AllIds == {EmptyId} \cup {GenId(t, ip) : t \in 0..MaxTime, ip \in SourceIps}

\* to_cybercare_threat: the threat dict of a viable alert, of whose keys
\* source_ip and behavior are followed (destination_ip, protocol, timestamp
\* and additional_data are the others); it has no 'id' and no 'severity' key.
\* An alert whose classification and signature match no table entry keeps
\* the behavior "unknown".
ThreatData(ip) == [source_ip |-> ip, behavior |-> "unknown"]

HasId(threat_data) == "id" \in DOMAIN threat_data

\* the columns of table threats
ThreatColumns ==
    {"id", "source_ip", "destination_ip", "protocol", "behavior", "timestamp",
     "creation_time", "submitted", "submission_time", "api_response",
     "additional_data", "ai_analysis", "threat_classification", "severity",
     "confidence", "is_anomaly", "similar_threats", "recommended_actions",
     "content_safety_result", "urls_detected", "last_ai_analysis_time"}

\* the methods class DatabaseConnector defines
DatabaseConnectorMethods ==
    {"__init__", "init_db", "_get_connection", "store_threat", "store_batch",
     "mark_as_submitted", "get_unsent_threats", "get_threat_by_id",
     "get_recent_threats", "get_stats", "cleanup_old_threats",
     "update_ai_analysis", "get_threat_with_ai_analysis",
     "get_threats_by_severity", "get_anomalous_threats"}

\* threat.get('retry_count', 0) on a row read back as a dict
RetryCountOf(threat) ==
    IF "retry_count" \in ThreatColumns THEN threat.retry_count ELSE 0

RowExists(rows, id) == \E i \in 1..Len(rows) : rows[i].id = id

RowOf(rows, id) == rows[CHOOSE i \in 1..Len(rows) : rows[i].id = id]

\* a freshly inserted row: submitted takes its column default 0;
\* creation_time is kept as the clock it was read from and its reading,
\* followed to the second
NewRow(id, threat_data, clock, t) ==
    [id |-> id, source_ip |-> threat_data.source_ip,
     behavior |-> threat_data.behavior, submitted |-> FALSE,
     creation_time |-> [clock |-> clock, at |-> t]]

(***************************************************************************)
(* store_threat: SELECT by threat_data.get('id') (None matches no row),    *)
(* then UPDATE the existing row or INSERT under threat_data.get('id', ''); *)
(* a primary-key clash of the INSERT is caught and reported as False.      *)
(***************************************************************************)
StoreThreat_KeepBehavior(rows, threat_data, t) ==
    LET existing == HasId(threat_data) /\ RowExists(rows, threat_data.id)
        key == IF HasId(threat_data) THEN threat_data.id ELSE EmptyId
    IN  IF existing
        THEN [i \in 1..Len(rows) |->
                IF rows[i].id = threat_data.id
                THEN [rows[i] EXCEPT !.source_ip = threat_data.source_ip]
                ELSE rows[i]]
        ELSE IF RowExists(rows, key) THEN rows
        ELSE Append(rows, NewRow(key, threat_data, "utcnow", t))

\* SELECT id FROM threats WHERE id = threat_data.get('id'); fetchone()
SelectExisting(rows, threat_data) ==
    HasId(threat_data) /\ RowExists(rows, threat_data.id)

\* the INSERT of store_threat does not clash with a row of the table
InsertAccepted(rows, threat_data) ==
    ~RowExists(rows, IF HasId(threat_data) THEN threat_data.id ELSE EmptyId)

\* the statement store_threat runs after its SELECT, and the commit
WriteThreat(rows, threat_data, existing, t) ==
    LET key == IF HasId(threat_data) THEN threat_data.id ELSE EmptyId
    IN  IF existing
        THEN [i \in 1..Len(rows) |->
                IF rows[i].id = threat_data.id
                THEN [rows[i] EXCEPT !.source_ip = threat_data.source_ip,
                                     !.behavior = threat_data.behavior]
                ELSE rows[i]]
        ELSE IF InsertAccepted(rows, threat_data)
             THEN Append(rows, NewRow(key, threat_data, "utcnow", t))
             ELSE rows

StoreThreat(rows, threat_data, t) ==
    WriteThreat(rows, threat_data, SelectExisting(rows, threat_data), t)

\* store_batch gives every dict without an 'id' key a generated id, in place
WithId(threat_data, t) ==
    IF HasId(threat_data) THEN threat_data
    ELSE [source_ip |-> threat_data.source_ip,
          behavior |-> threat_data.behavior,
          id |-> GenId(t, threat_data.source_ip)]

\* INSERT OR REPLACE: the old row of the id goes, a new row is created
InsertOrReplace(rows, threat_data, t) ==
    Append(SelectSeq(rows, LAMBDA r : r.id # threat_data.id),
           NewRow(threat_data.id, threat_data, "now", t))

RECURSIVE StoreBatch(_, _, _)
StoreBatch(rows, threat_batch, t) ==
    IF threat_batch = <<>> THEN rows
    ELSE StoreBatch(InsertOrReplace(rows, WithId(Head(threat_batch), t), t),
                    Tail(threat_batch), t)

(***************************************************************************)
(* mark_as_submitted on db = [threats, ledger]: on success UPDATE the row  *)
(* (no row: nothing updated); always INSERT one submission_attempts row.   *)
(***************************************************************************)
NoError == [text |-> "", status |-> 0]

MarkAsSubmitted_SkipFailureRow(db, threat_id, success, error_message) ==
    IF success
    THEN [threats |-> [i \in 1..Len(db.threats) |->
                          IF db.threats[i].id = threat_id
                          THEN [db.threats[i] EXCEPT !.submitted = TRUE]
                          ELSE db.threats[i]],
          ledger |-> Append(db.ledger, [threat_id |-> threat_id,
                                        success |-> success,
                                        error_message |-> error_message])]
    ELSE db

MarkAsSubmitted(db, threat_id, success, error_message) ==
    [threats |-> IF success
                 THEN [i \in 1..Len(db.threats) |->
                          IF db.threats[i].id = threat_id
                          THEN [db.threats[i] EXCEPT !.submitted = TRUE]
                          ELSE db.threats[i]]
                 ELSE db.threats,
     ledger |-> Append(db.ledger, [threat_id |-> threat_id,
                                   success |-> success,
                                   error_message |-> error_message])]

(***************************************************************************)
(* get_unsent_threats: WHERE submitted = 0 ORDER BY creation_time ASC      *)
(* LIMIT ?.  store_threat stamps a row with datetime.utcnow(), store_batch *)
(* with datetime.now(): rows of one clock sort in insertion order, and the *)
(* host's zone decides which clock's rows come first.                      *)
(***************************************************************************)
GetUnsentThreats(rows, limit, behind_utc) ==
    LET unsent == SelectSeq(rows, LAMBDA r : ~r.submitted)
        utc == SelectSeq(unsent, LAMBDA r : r.creation_time.clock = "utcnow")
        local == SelectSeq(unsent, LAMBDA r : r.creation_time.clock = "now")
        ordered == IF behind_utc THEN local \o utc ELSE utc \o local
    IN  IF Len(ordered) <= limit THEN ordered ELSE SubSeq(ordered, 1, limit)

(***************************************************************************)
(* What the sink may answer: a status with a JSON body, status 200 with a  *)
(* body that is not JSON, or no answer at all (requests raises).           *)
(***************************************************************************)
StatusCodes == {200, 202, 500}

SinkResponses ==
    {[exc |-> FALSE, status |-> c, json |-> TRUE] : c \in StatusCodes}
    \cup {[exc |-> FALSE, status |-> 200, json |-> FALSE],
          [exc |-> TRUE, status |-> 0, json |-> FALSE]}

\* send_alert: if response.status_code == 200
IsSuccessStatus_Any2xx(status) == status \in 200..299

IsSuccessStatus(status) == status = 200

\* send_batch: if response.status_code in (200, 202)
IsBatchAccepted(status) == status \in {200, 202}

\* the branch send_alert ends in: response.json() of the success branch
\* raises on a body that is not JSON and lands in the except branch
SendAlertBranch(resp) ==
    IF resp.exc THEN "except"
    ELSE IF IsSuccessStatus(resp.status)
         THEN IF resp.json THEN "success" ELSE "except"
         ELSE "http_error"

\* f"HTTP {response.status_code}: {response.text}" and str(e)
ErrorMessage(resp, branch) ==
    IF branch = "success" THEN NoError
    ELSE IF branch = "http_error" THEN [text |-> "HTTP", status |-> resp.status]
    ELSE [text |-> "exception", status |-> 0]

(***************************************************************************)
(* The operations below act on a record st of the store variables.         *)
(***************************************************************************)
\* no request was made, so there is no answer
NoResponse == [exc |-> FALSE, status |-> 0, json |-> FALSE]

NoSend ==
    [origin |-> "none", marked |-> FALSE, id |-> EmptyId, persisted |-> FALSE,
     resp |-> NoResponse, branch |-> "none", record |-> [none |-> TRUE]]

NoSweep == [ran |-> FALSE, fetched |-> <<>>, attempted |-> <<>>]

\* a call of db.mark_as_submitted, entered in the call history
CallMark(st, threat_id, success, error_message) ==
    LET db == MarkAsSubmitted([threats |-> st.threats, ledger |-> st.ledger],
                              threat_id, success, error_message)
    IN  [st EXCEPT !.threats = db.threats,
                   !.ledger = db.ledger,
                   !.mark_log = Append(@, [threat_id |-> threat_id,
                                           success |-> success])]

(***************************************************************************)
(* send_alert(threat_data): POST, then mark_as_submitted in the branch     *)
(* taken, but only "if self.db and threat_id": a dict without an id, or    *)
(* with the id '', is never marked.  persisted says whether the dict is    *)
(* the content of a row of the store, and under which id.                  *)
(***************************************************************************)
SendAlert(st, threat_data, resp, origin, persisted, row_id) ==
    LET branch == SendAlertBranch(resp)
        marks == HasId(threat_data) /\ threat_data.id # EmptyId
        st1 == IF marks
               THEN CallMark(st, threat_data.id, branch = "success",
                             ErrorMessage(resp, branch))
               ELSE st
        n == st.sent[row_id]
    IN  [st1 EXCEPT
            !.sent = IF persisted
                     THEN [@ EXCEPT ![row_id] =
                             [ok |-> n.ok + (IF branch = "success" THEN 1 ELSE 0),
                              fail |-> n.fail + (IF branch = "success" THEN 0 ELSE 1),
                              retries |-> n.retries + (IF origin = "sweep" THEN 1 ELSE 0)]]
                     ELSE @,
            !.last_send = [origin |-> origin, marked |-> marks, id |-> row_id,
                           persisted |-> persisted, resp |-> resp,
                           branch |-> branch, record |-> threat_data]]

\* the ids send_batch collects: threat.get('id') of every pending dict with one
PendingIds(pending) ==
    LET with_id == SelectSeq(pending, HasId)
    IN  [k \in 1..Len(with_id) |-> with_id[k].id]

\* for threat_id in threat_ids: self.db.mark_as_submitted(threat_id, ...)
RECURSIVE MarkAll(_, _, _, _, _)
MarkAll(st, ids, k, success, error_message) ==
    IF k > Len(ids) THEN st
    ELSE MarkAll(CallMark(st, ids[k], success, error_message),
                 ids, k + 1, success, error_message)

(***************************************************************************)
(* send_batch: POST all pending dicts; accepted: mark every collected id   *)
(* submitted and empty the buffer; otherwise mark every collected id       *)
(* failed and keep the buffer.  flushes collects, per request, the dicts   *)
(* that were posted, the answer, and the buffer the call left.             *)
(***************************************************************************)
SendBatch_ClearsOnRejection(st, resp) ==
    IF st.pending_alerts = <<>> THEN st
    ELSE LET threat_ids == PendingIds(st.pending_alerts)
             done ==
                IF ~resp.exc /\ IsBatchAccepted(resp.status)
                THEN [MarkAll(st, threat_ids, 1, TRUE, NoError)
                         EXCEPT !.pending_alerts = <<>>]
                ELSE IF ~resp.exc
                     THEN [MarkAll(st, threat_ids, 1, FALSE,
                                   [text |-> "HTTP", status |-> resp.status])
                              EXCEPT !.pending_alerts = <<>>]
                     ELSE MarkAll(st, threat_ids, 1, FALSE,
                                  [text |-> "exception", status |-> 0])
         IN  [done EXCEPT !.flushes =
                 Append(@, [threats |-> st.pending_alerts,
                            resp |-> resp,
                            left |-> done.pending_alerts])]

SendBatch(st, resp) ==
    IF st.pending_alerts = <<>> THEN st
    ELSE LET threat_ids == PendingIds(st.pending_alerts)
             done ==
                IF ~resp.exc /\ IsBatchAccepted(resp.status)
                THEN [MarkAll(st, threat_ids, 1, TRUE, NoError)
                         EXCEPT !.pending_alerts = <<>>]
                ELSE IF ~resp.exc
                     THEN MarkAll(st, threat_ids, 1, FALSE,
                                  [text |-> "HTTP", status |-> resp.status])
                     ELSE MarkAll(st, threat_ids, 1, FALSE,
                                  [text |-> "exception", status |-> 0])
         IN  [done EXCEPT !.flushes =
                 Append(@, [threats |-> st.pending_alerts,
                            resp |-> resp,
                            left |-> done.pending_alerts])]

(***************************************************************************)
(* The per-alert loop of process_new_alerts over the viable alerts of one  *)
(* read: store_threat, then send_alert (single mode) or buffer and maybe   *)
(* send_batch (batch mode).                                                *)
(***************************************************************************)
RECURSIVE ProcessAlerts(_, _, _, _, _)
ProcessAlerts_SkipsUnstored(st, alerts, resps, i, batch) ==
    IF i > Len(alerts) THEN st
    ELSE LET threat_data == alerts[i]
             inserted == ~RowExists(st.threats, EmptyId)
             st1 == [st EXCEPT !.threats = StoreThreat(@, threat_data, now)]
         IN  IF ~inserted
             THEN ProcessAlerts(st1, alerts, resps, i + 1, batch)
             ELSE IF batch
             THEN LET st2 == [st1 EXCEPT !.pending_alerts = Append(@, threat_data)]
                  IN  ProcessAlerts(
                          IF Len(st2.pending_alerts) >= BatchSize
                          THEN SendBatch(st2, resps[i]) ELSE st2,
                          alerts, resps, i + 1, batch)
             ELSE ProcessAlerts(
                      SendAlert(st1, threat_data, resps[i], "tail", inserted, EmptyId),
                      alerts, resps, i + 1, batch)

ProcessAlerts(st, alerts, resps, i, batch) ==
    IF i > Len(alerts) THEN st
    ELSE LET threat_data == alerts[i]
             inserted == ~RowExists(st.threats, EmptyId)
             st1 == [st EXCEPT !.threats = StoreThreat(@, threat_data, now)]
         IN  IF batch
             THEN LET st2 == [st1 EXCEPT !.pending_alerts = Append(@, threat_data)]
                  IN  ProcessAlerts(
                          IF Len(st2.pending_alerts) >= BatchSize
                          THEN SendBatch(st2, resps[i]) ELSE st2,
                          alerts, resps, i + 1, batch)
             ELSE ProcessAlerts(
                      SendAlert(st1, threat_data, resps[i], "tail", inserted, EmptyId),
                      alerts, resps, i + 1, batch)

\* after the loop, batch mode: store_batch(batch_threats); the dicts it gives
\* ids to are the ones still waiting in pending_alerts
AfterLoop(st, alerts, t, batch) ==
    IF batch /\ alerts # <<>>
    THEN [st EXCEPT !.threats = StoreBatch(@, alerts, t),
                    !.pending_alerts = [k \in 1..Len(@) |-> WithId(@[k], t)]]
    ELSE st

(***************************************************************************)
(* What the sink may answer during one loop over n alerts: one response    *)
(* for every request the loop makes.  Single mode posts every alert; batch *)
(* mode posts when the buffer, pending_len long before the alert, reaches  *)
(* batch_size, and an accepted batch empties the buffer.                   *)
(***************************************************************************)
RECURSIVE Answers(_, _, _)
Answers(batch, pending_len, n) ==
    IF n = 0 THEN {<<>>}
    ELSE IF batch /\ pending_len + 1 < BatchSize
         THEN {<<NoResponse>> \o s : s \in Answers(batch, pending_len + 1, n - 1)}
         ELSE UNION {{<<r>> \o s :
                        s \in Answers(batch,
                                      IF ~r.exc /\ IsBatchAccepted(r.status)
                                      THEN 0 ELSE pending_len + 1,
                                      n - 1)} : r \in SinkResponses}

StoreState ==
    [threats |-> threats, ledger |-> ledger, pending_alerts |-> pending_alerts,
     mark_log |-> mark_log, sent |-> sent, last_send |-> NoSend,
     flushes |-> <<>>]

AlertSeqs ==
    UNION {[1..n -> {ThreatData(ip) : ip \in SourceIps}] : n \in 1..MaxAlerts}

RECURSIVE SweepSends(_, _)
SweepSends(s, ids) ==
    IF ids = {} THEN 0
    ELSE LET id == CHOOSE x \in ids : TRUE
         IN  s[id].retries + SweepSends(s, ids \ {id})

WithinBounds(st) ==
    /\ Len(st.ledger) <= MaxLedger
    /\ Len(st.pending_alerts) <= MaxPending
    /\ SweepSends(st.sent, AllIds) <= MaxRetries

\* get_stats was not the last step
NoStats == [taken |-> FALSE]

Commit(st) ==
    /\ WithinBounds(st)
    /\ stats' = NoStats
    /\ threats' = st.threats
    /\ ledger' = st.ledger
    /\ pending_alerts' = st.pending_alerts
    /\ mark_log' = st.mark_log
    /\ sent' = st.sent
    /\ last_send' = st.last_send
    /\ last_flush' = st.flushes

StoreInit ==
    /\ batch_mode \in BOOLEAN
    /\ local_behind_utc \in BOOLEAN
    /\ now = 0
    /\ threats = <<>>
    /\ ledger = <<>>
    /\ pending_alerts = <<>>
    /\ mark_log = <<>>
    /\ sent = [id \in AllIds |-> [ok |-> 0, fail |-> 0, retries |-> 0]]
    /\ last_send = NoSend
    /\ last_sweep = NoSweep
    /\ last_flush = <<>>
    /\ writes = <<>>
    /\ stats = NoStats

\* the first batch a loop over n alerts posts marks every id waiting in the
\* buffer: a loop that overruns the ledger bound this way is not followed
FirstBatchFits(n) ==
    (batch_mode /\ Len(pending_alerts) + n >= BatchSize)
        => Len(ledger) + Len(PendingIds(pending_alerts)) <= MaxLedger

\* The tail thread: one poll that read the given viable alerts.
TailPoll ==
    \E alerts \in AlertSeqs :
      /\ FirstBatchFits(Len(alerts))
      /\ \E resps \in Answers(batch_mode, Len(pending_alerts), Len(alerts)) :
            \E st \in {AfterLoop(ProcessAlerts(StoreState, alerts, resps, 1,
                                                batch_mode),
                                  alerts, now, batch_mode)} : Commit(st)
      /\ last_sweep' = NoSweep
      /\ UNCHANGED <<batch_mode, local_behind_utc, now>>
      /\ UNCHANGED <<tailVars, callerVars, jobVars, raceVars, extVars>>

(***************************************************************************)
(* One round of retry_unsent_alerts.  A row read back as a dict has no     *)
(* 'retry_count' key, so the limit test is skipped; the threat is sent;    *)
(* then watcher.db.update_retry_count raises AttributeError (the class     *)
(* defines no such method), which the handler around the round catches:    *)
(* the for loop is left after the first threat.                            *)
(***************************************************************************)
RetrySweep ==
    LET unsent_threats == GetUnsentThreats(threats, UnsentLimit, local_behind_utc)
    IN  IF unsent_threats = <<>>
        THEN /\ last_sweep' = [ran |-> TRUE, fetched |-> <<>>, attempted |-> <<>>]
             /\ last_send' = NoSend
             /\ last_flush' = <<>>
             /\ stats' = NoStats
             /\ UNCHANGED <<batch_mode, local_behind_utc, now, threats, ledger,
                            pending_alerts, mark_log, sent>>
             /\ UNCHANGED <<tailVars, callerVars, jobVars, raceVars, extVars>>
        ELSE \E resp \in SinkResponses :
                LET threat == unsent_threats[1]
                    fetched == [k \in 1..Len(unsent_threats) |-> unsent_threats[k].id]
                    limit_reached == "retry_count" \in ThreatColumns
                                        /\ RetryCountOf(threat) >= RetryLimit
                    aborts == IF limit_reached
                              THEN "mark_as_permanently_failed" \notin DatabaseConnectorMethods
                              ELSE "update_retry_count" \notin DatabaseConnectorMethods
                IN  /\ aborts
                    /\ IF limit_reached
                       THEN /\ Commit(StoreState)
                            /\ last_sweep' = [ran |-> TRUE, fetched |-> fetched,
                                              attempted |-> <<>>]
                       ELSE /\ \E st \in {SendAlert(StoreState, threat, resp, "sweep",
                                                    TRUE, threat.id)} : Commit(st)
                            /\ last_sweep' = [ran |-> TRUE, fetched |-> fetched,
                                              attempted |-> <<threat.id>>]
                    /\ UNCHANGED <<batch_mode, local_behind_utc, now>>
                    /\ UNCHANGED <<tailVars, callerVars, jobVars, raceVars, extVars>>

\* a second passes
Tick ==
    /\ now < MaxTime
    /\ now' = now + 1
    /\ last_send' = NoSend
    /\ last_flush' = <<>>
    /\ last_sweep' = NoSweep
    /\ stats' = NoStats
    /\ UNCHANGED <<batch_mode, local_behind_utc, threats, ledger, pending_alerts,
                   mark_log, sent>>
    /\ UNCHANGED <<tailVars, callerVars, jobVars, raceVars, extVars>>

Next ==
    \/ TailPoll
    \/ RetrySweep
    \/ Tick

\* the store at rest, for the specifications of the tail reader
StoreIdle ==
    /\ StoreInit
    /\ batch_mode = FALSE
    /\ local_behind_utc = FALSE

\* the tail reader at rest, for the specification of the store
TailIdle ==
    /\ TailInit
    /\ mode = "poll"

\* no job has been submitted
NoJob ==
    [status |-> "NONE", total |-> 0, completed |-> 0, results |-> <<>>,
     end_time |-> "None"]

JobIdle ==
    /\ worker = "process_batch"
    /\ job_threats = <<>>
    /\ job_pc = "none"
    /\ idx = 0
    /\ results = <<>>
    /\ job_data = NoJob
    /\ redis_job = NoJob
    /\ cached = FALSE
    /\ seen = <<>>
    /\ asked = <<>>

\* no thread is in a call of the store
NoSessions == sessions = <<>>

\* no poll has run
NoPoll == [ran |-> FALSE]

ParseIdle == last_poll = NoPoll

\* no store operation is being called
NoCall == [name |-> "none"]

OutageIdle ==
    /\ store_call = NoCall
    /\ finished = <<>>

\* the process has not ended
NoExit == [tail_pc |-> "none", retry_pc |-> "none"]

\* main() has made the watcher and, with --retry-unsent, started the retry
\* thread, which sleeps first
ThreadsInit ==
    /\ watch \in BOOLEAN
    /\ retry_unsent \in BOOLEAN
    /\ tail_pc = "idle"
    /\ tail_left = 0
    /\ retry_pc = IF retry_unsent THEN "sleep" ELSE "off"
    /\ stopping = FALSE
    /\ exited = FALSE
    /\ exit_log = NoExit
    /\ begun_after = {}

\* the threads as the argument defaults start them
ShutdownIdle ==
    /\ ThreadsInit
    /\ watch = FALSE
    /\ retry_unsent = FALSE

\* no function is called
NoArgs == [fn |-> "none"]

\* the call has not returned
NoReturn == [done |-> FALSE]

ClassifyIdle ==
    /\ args = NoArgs
    /\ returned = NoReturn

\* the later specifications at rest
ExtIdle == ParseIdle /\ OutageIdle /\ ShutdownIdle /\ ClassifyIdle

Init == TailIdle /\ StoreInit /\ JobIdle /\ NoSessions /\ ExtIdle

InitTail == TailInit /\ StoreIdle /\ JobIdle /\ NoSessions /\ ExtIdle

Spec == Init /\ [][Next]_vars

(***************************************************************************)
(* The store under its direct callers: store_threat and store_batch called *)
(* with records that may carry an id of the caller's.                      *)
(***************************************************************************)
\* the records of the call history that are followed
MaxWrites == 3

\* the longest batch a caller hands to store_batch
MaxBatch == 2

\* two of the behavior tags of BEHAVIOR_MAPPING
Behaviors == {"port_scan", "malware"}

\* the ids a caller supplies: one of its own, or the id of a record read back
CallerIds == {<<"caller", 1>>} \cup {GenId(0, ip) : ip \in SourceIps}

CallerRecords ==
    {[source_ip |-> ip, behavior |-> b] : ip \in SourceIps, b \in Behaviors}
    \cup {[source_ip |-> ip, behavior |-> b, id |-> id] :
             ip \in SourceIps, b \in Behaviors, id \in CallerIds}

CallerBatches == UNION {[1..n -> CallerRecords] : n \in 1..MaxBatch}

\* the entry of the call history for one record: the id it is filed under
\* (store_threat: threat_data.get('id', ''); store_batch: the given or the
\* generated id) and whether the call stored it (store_threat returns False
\* when its INSERT clashes with a row of the same id)
LoggedWrite(op, rows, threat_data, t) ==
    [op |-> op,
     supplied |-> HasId(threat_data),
     id |-> IF op = "store_batch" THEN WithId(threat_data, t).id
            ELSE IF HasId(threat_data) THEN threat_data.id ELSE EmptyId,
     behavior |-> threat_data.behavior,
     stored |-> op = "store_batch" \/ HasId(threat_data)
                   \/ ~RowExists(rows, EmptyId)]

\* db.store_threat(threat_data) by a direct caller
CallStoreThreat ==
    /\ Len(writes) < MaxWrites
    /\ \E threat_data \in CallerRecords :
          /\ threats' = StoreThreat(threats, threat_data, now)
          /\ writes' = Append(writes, LoggedWrite("store_threat", threats,
                                                   threat_data, now))
    /\ UNCHANGED <<batch_mode, local_behind_utc, now, ledger, pending_alerts,
                   mark_log, sent, last_send, last_sweep,
                   last_flush>>
    /\ UNCHANGED <<tailVars, jobVars, raceVars, extVars, statsVars>>

\* db.store_batch(threat_batch) by a direct caller
CallStoreBatch ==
    /\ \E threat_batch \in CallerBatches :
          /\ Len(writes) + Len(threat_batch) <= MaxWrites
          /\ threats' = StoreBatch(threats, threat_batch, now)
          /\ writes' = writes \o [k \in 1..Len(threat_batch) |->
                                     LoggedWrite("store_batch", threats,
                                                 threat_batch[k], now)]
    /\ UNCHANGED <<batch_mode, local_behind_utc, now, ledger, pending_alerts,
                   mark_log, sent, last_send, last_sweep,
                   last_flush>>
    /\ UNCHANGED <<tailVars, jobVars, raceVars, extVars, statsVars>>

NextUpsert ==
    \/ CallStoreThreat
    \/ CallStoreBatch
    \/ Tick

InitUpsert == TailIdle /\ StoreIdle /\ JobIdle /\ NoSessions /\ ExtIdle

SpecUpsert == InitUpsert /\ [][NextUpsert]_vars

(***************************************************************************)
(* Batch jobs.  Both workers are coroutines on one event loop: what lies   *)
(* between two suspension points (asyncio.sleep, the Redis calls) is one   *)
(* step, and a status query runs only while the worker is suspended.       *)
(* The call of analyze_threat for an item either returns or raises.        *)
(***************************************************************************)
\* the longest job followed
MaxItems == 2

\* the status queries followed
MaxQueries == 2

JobWorkers == {"process_batch", "process_batch_analysis"}

JobBatches == UNION {[1..n -> {"ok", "raise"}] : n \in 0..MaxItems}

\* the entries of results: the analysis of item k, or the placeholder with
\* the 'error' key
SuccessResult(k) == [item |-> k, outcome |-> "success"]

FailedResult(k) == [item |-> k, outcome |-> "error"]

IsTerminal(status) == status \in {"COMPLETED", "FAILED"}

\* the dict batch_analyze_threats enters in _job_statuses
PendingJob(threat_list) ==
    [status |-> "PENDING", total |-> Len(threat_list), completed |-> 0,
     results |-> <<>>, end_time |-> "None"]

\* the users that call the service
UserIds == {1, 2}

\* the dict process_batch_analysis starts from
InitialJobData(threat_list, user_id) ==
    [status |-> "PROCESSING", total |-> Len(threat_list), completed |-> 0,
     results |-> <<>>, user_id |-> user_id, end_time |-> "None"]

JobInit ==
    /\ worker \in JobWorkers
    /\ job_threats \in JobBatches
    /\ job_pc = "none"
    /\ idx = 0
    /\ results = <<>>
    /\ job_data = NoJob
    /\ redis_job = NoJob
    /\ cached = FALSE
    /\ seen = <<>>
    /\ asked = <<>>

(***************************************************************************)
(* process_batch from item i on, up to its next asyncio.sleep or its end.  *)
(* An item whose analysis raises gets the placeholder and the loop goes on *)
(* at once; an item that succeeds sets completed = i + 1 and sleeps.       *)
(* After the last item: status, results and end_time are set together.     *)
(***************************************************************************)
RECURSIVE ProcessBatch(_, _, _, _)
ProcessBatch(threat_list, job, res, i) ==
    IF i > Len(threat_list)
    THEN [job |-> [job EXCEPT !.status = "COMPLETED", !.results = res,
                              !.end_time = "utcnow"],
          results |-> res, idx |-> Len(threat_list), pc |-> "done"]
    ELSE IF threat_list[i] = "raise"
         THEN ProcessBatch(threat_list, job, Append(res, FailedResult(i)), i + 1)
         ELSE [job |-> [job EXCEPT !.completed = i],
               results |-> Append(res, SuccessResult(i)), idx |-> i,
               pc |-> "loop"]

\* POST /batch-analyze: the job is entered as PENDING and the task scheduled
BatchAnalyzeThreats ==
    /\ worker = "process_batch"
    /\ job_pc = "none"
    /\ job_data' = PendingJob(job_threats)
    /\ job_pc' = "accepted"
    /\ UNCHANGED <<worker, job_threats, idx, results, redis_job, cached, seen, asked>>
    /\ UNCHANGED <<tailVars, storeVars, callerVars, raceVars, extVars, statsVars>>

\* the task starts: the job is found in _job_statuses and set to PROCESSING
ProcessBatchStart ==
    /\ worker = "process_batch"
    /\ job_pc = "accepted"
    /\ job_data' = [job_data EXCEPT !.status = "PROCESSING"]
    /\ job_pc' = "loop"
    /\ UNCHANGED <<worker, job_threats, idx, results, redis_job, cached, seen, asked>>
    /\ UNCHANGED <<tailVars, storeVars, callerVars, raceVars, extVars, statsVars>>

\* the loop from the next item on, up to its next asyncio.sleep(0.1) or its end
ProcessBatchResume ==
    /\ worker = "process_batch"
    /\ job_pc = "loop"
    /\ LET r == ProcessBatch(job_threats, job_data, results, idx + 1)
       IN  /\ job_data' = r.job
           /\ results' = r.results
           /\ idx' = r.idx
           /\ job_pc' = r.pc
    /\ UNCHANGED <<worker, job_threats, redis_job, cached, seen, asked>>
    /\ UNCHANGED <<tailVars, storeVars, callerVars, raceVars, extVars, statsVars>>

\* GET /status/{job_id}: the dict of _job_statuses is the answer
CheckAnalysisStatus ==
    /\ worker = "process_batch"
    /\ job_data # NoJob
    /\ Len(seen) < MaxQueries
    /\ seen' = Append(seen, job_data)
    /\ UNCHANGED <<worker, job_threats, job_pc, idx, results, job_data,
                   redis_job, cached, asked>>
    /\ UNCHANGED <<tailVars, storeVars, callerVars, raceVars, extVars, statsVars>>

\* ThreatDetectionService.generate_job_id: the caller has a job id; nothing
\* is written for the job
GenerateJobId ==
    /\ worker = "process_batch_analysis"
    /\ job_pc = "none"
    /\ job_pc' = "accepted"
    /\ UNCHANGED <<worker, job_threats, idx, results, job_data, redis_job,
                   cached, seen, asked>>
    /\ UNCHANGED <<tailVars, storeVars, callerVars, raceVars, extVars, statsVars>>

\* process_batch_analysis starts: job_data is built, its first
\* _update_job_status is under way
ProcessBatchAnalysisStart ==
    /\ worker = "process_batch_analysis"
    /\ job_pc = "accepted"
    /\ \E user_id \in UserIds : job_data' = InitialJobData(job_threats, user_id)
    /\ job_pc' = "update"
    /\ UNCHANGED <<worker, job_threats, idx, results, redis_job, cached, seen, asked>>
    /\ UNCHANGED <<tailVars, storeVars, callerVars, raceVars, extVars, statsVars>>

(***************************************************************************)
(* _update_job_status: json.dumps(job_data) is SET in Redis when Redis     *)
(* answers; otherwise _job_cache[job_id] = job_data, the worker's own dict *)
(* (not a copy).  The sleep after it is part of the same wait.             *)
(***************************************************************************)
UpdateJobStatus ==
    /\ worker = "process_batch_analysis"
    /\ job_pc = "update"
    /\ \E redis_ok \in BOOLEAN :
          IF redis_ok
          THEN redis_job' = job_data /\ UNCHANGED cached
          ELSE cached' = TRUE /\ UNCHANGED redis_job
    /\ job_pc' = IF IsTerminal(job_data.status) THEN "done" ELSE "loop"
    /\ UNCHANGED <<worker, job_threats, idx, results, job_data, seen, asked>>
    /\ UNCHANGED <<tailVars, storeVars, callerVars, raceVars, extVars, statsVars>>

(***************************************************************************)
(* One turn of the loop of process_batch_analysis, which has no handler    *)
(* around an item: the analysis returns (result appended, completed and    *)
(* results set in job_data) or raises (the handler around the loop sets    *)
(* FAILED); after the last item job_data is marked COMPLETED.  Each ends   *)
(* in _update_job_status.                                                  *)
(***************************************************************************)
ProcessBatchAnalysisItem ==
    /\ worker = "process_batch_analysis"
    /\ job_pc = "loop"
    /\ IF idx = Len(job_threats)
       THEN /\ job_data' = [job_data EXCEPT !.status = "COMPLETED",
                                            !.end_time = "now"]
            /\ UNCHANGED <<idx, results>>
       ELSE IF job_threats[idx + 1] = "raise"
            THEN /\ job_data' = [job_data EXCEPT !.status = "FAILED",
                                                 !.end_time = "now"]
                 /\ idx' = idx + 1
                 /\ UNCHANGED results
            ELSE /\ results' = Append(results, SuccessResult(idx + 1))
                 /\ job_data' = [job_data EXCEPT !.completed = idx + 1,
                                                 !.results = results']
                 /\ idx' = idx + 1
    /\ job_pc' = "update"
    /\ UNCHANGED <<worker, job_threats, redis_job, cached, seen, asked>>
    /\ UNCHANGED <<tailVars, storeVars, callerVars, raceVars, extVars, statsVars>>

\* what get_job_status answers the user: the Redis value when Redis answers
\* and has one, else the dict in _job_cache; the value that was found is
\* returned when its user_id is the caller's, else None
JobStatusAnswer_CacheUnchecked(redis_ok, user_id) ==
    IF redis_ok /\ redis_job # NoJob
    THEN IF redis_job.user_id = user_id THEN redis_job ELSE NoJob
    ELSE IF cached THEN job_data
    ELSE NoJob

JobStatusAnswer(redis_ok, user_id) ==
    IF redis_ok /\ redis_job # NoJob
    THEN IF redis_job.user_id = user_id THEN redis_job ELSE NoJob
    ELSE IF cached /\ job_data.user_id = user_id THEN job_data
    ELSE NoJob

GetJobStatus ==
    /\ worker = "process_batch_analysis"
    /\ Len(asked) < MaxQueries
    /\ \E redis_ok \in BOOLEAN, user_id \in UserIds :
          LET answer == JobStatusAnswer(redis_ok, user_id)
          IN  /\ asked' = Append(asked, [user_id |-> user_id,
                                         redis_ok |-> redis_ok,
                                         answer |-> answer])
              /\ seen' = IF answer # NoJob THEN Append(seen, answer) ELSE seen
    /\ UNCHANGED <<worker, job_threats, job_pc, idx, results, job_data,
                   redis_job, cached>>
    /\ UNCHANGED <<tailVars, storeVars, callerVars, raceVars, extVars, statsVars>>

NextJobs ==
    \/ BatchAnalyzeThreats
    \/ ProcessBatchStart
    \/ ProcessBatchResume
    \/ CheckAnalysisStatus
    \/ GenerateJobId
    \/ ProcessBatchAnalysisStart
    \/ UpdateJobStatus
    \/ ProcessBatchAnalysisItem
    \/ GetJobStatus

InitJobs == TailIdle /\ StoreIdle /\ JobInit /\ NoSessions /\ ExtIdle

SpecJobs == InitJobs /\ [][NextJobs]_vars

(***************************************************************************)
(* Concurrent writers.  The tail loop, the retry thread and a batch task   *)
(* each call the store once for the same id, every call on a connection of *)
(* its own.  SQLite runs the write transactions one after the other; the   *)
(* SELECT of store_threat runs before its transaction begins, so other     *)
(* writers can commit between the SELECT and the INSERT or UPDATE.         *)
(***************************************************************************)
Writers == {"tail", "sweep", "batch"}

\* the id the writers work on
SharedId == <<"caller", 1>>

SharedRecords ==
    {[source_ip |-> ip, behavior |-> b, id |-> SharedId] :
        ip \in SourceIps, b \in Behaviors}

\* the call each writer makes: store_threat in the tail loop, store_batch in
\* the batch task, mark_as_submitted (through send_alert) in the retry thread
WriterCalls(w) ==
    IF w = "tail"
    THEN {[op |-> "store_threat", record |-> r, success |-> FALSE] :
             r \in SharedRecords}
    ELSE IF w = "batch"
         THEN {[op |-> "store_batch", record |-> r, success |-> FALSE] :
                  r \in SharedRecords}
         ELSE {[op |-> "mark_as_submitted", record |-> r, success |-> ok] :
                  r \in SharedRecords, ok \in BOOLEAN}

AllCalls == UNION {WriterCalls(w) : w \in Writers}

RaceInit ==
    sessions \in {[w \in Writers |->
                     [call |-> c[w], pc |-> "start", existing |-> FALSE,
                      ok |-> TRUE]] :
                  c \in {f \in [Writers -> AllCalls] :
                           \A w \in Writers : f[w] \in WriterCalls(w)}}

\* store_threat, first part: the SELECT and fetchone()
StoreThreatSelect ==
    /\ \E w \in Writers :
          /\ sessions[w].call.op = "store_threat"
          /\ sessions[w].pc = "start"
          /\ sessions' = [sessions EXCEPT
                             ![w].pc = "selected",
                             ![w].existing =
                                 SelectExisting(threats, sessions[w].call.record)]
    /\ UNCHANGED storeVars
    /\ UNCHANGED <<tailVars, callerVars, jobVars, extVars, statsVars>>

\* store_threat, second part: UPDATE or INSERT as the SELECT decided, and
\* commit; an INSERT that clashes with a row raises, and the call returns False
StoreThreatWrite ==
    /\ \E w \in Writers :
          /\ sessions[w].call.op = "store_threat"
          /\ sessions[w].pc = "selected"
          /\ threats' = WriteThreat(threats, sessions[w].call.record,
                                    sessions[w].existing, now)
          /\ sessions' = [sessions EXCEPT
                             ![w].pc = "done",
                             ![w].ok = sessions[w].existing
                                          \/ InsertAccepted(threats,
                                                            sessions[w].call.record)]
    /\ UNCHANGED <<batch_mode, local_behind_utc, now, ledger, pending_alerts,
                   mark_log, sent, last_send, last_sweep,
                   last_flush>>
    /\ UNCHANGED <<tailVars, callerVars, jobVars, extVars, statsVars>>

\* store_batch: one transaction
StoreBatchTransaction ==
    /\ \E w \in Writers :
          /\ sessions[w].call.op = "store_batch"
          /\ sessions[w].pc = "start"
          /\ threats' = StoreBatch(threats, <<sessions[w].call.record>>, now)
          /\ sessions' = [sessions EXCEPT ![w].pc = "done"]
    /\ UNCHANGED <<batch_mode, local_behind_utc, now, ledger, pending_alerts,
                   mark_log, sent, last_send, last_sweep,
                   last_flush>>
    /\ UNCHANGED <<tailVars, callerVars, jobVars, extVars, statsVars>>

\* the error text the retry thread hands to mark_as_submitted
MarkError(success) ==
    IF success THEN NoError ELSE [text |-> "exception", status |-> 0]

\* mark_as_submitted: one transaction
MarkAsSubmittedTransaction ==
    /\ \E w \in Writers :
          /\ sessions[w].call.op = "mark_as_submitted"
          /\ sessions[w].pc = "start"
          /\ LET db == MarkAsSubmitted([threats |-> threats, ledger |-> ledger],
                                       sessions[w].call.record.id,
                                       sessions[w].call.success,
                                       MarkError(sessions[w].call.success))
             IN  threats' = db.threats /\ ledger' = db.ledger
          /\ sessions' = [sessions EXCEPT ![w].pc = "done"]
    /\ UNCHANGED <<batch_mode, local_behind_utc, now, pending_alerts,
                   mark_log, sent, last_send, last_sweep,
                   last_flush>>
    /\ UNCHANGED <<tailVars, callerVars, jobVars, extVars, statsVars>>

NextRace ==
    \/ StoreThreatSelect
    \/ StoreThreatWrite
    \/ StoreBatchTransaction
    \/ MarkAsSubmittedTransaction

InitRace == TailIdle /\ StoreIdle /\ JobIdle /\ RaceInit /\ ExtIdle

SpecRace == InitRace /\ [][NextRace]_vars

SpecTail == InitTail /\ [][NextTail]_vars

\* The scheduler threads keep running; notifications are not guaranteed.
FairTail ==
    /\ InitTail /\ [][NextTail]_vars
    /\ WF_vars(MainInitialPoll)
    /\ WF_vars(PollModeTick)
    /\ WF_vars(OnModified)
    /\ WF_vars(WatchModeTick)
    /\ WF_vars(ReadNewContent)

(***************************************************************************)
(* Claims about the tail reader.                                           *)
(***************************************************************************)

\* C1: a poll that did not detect a truncation never yields a byte at an
\* offset the reader has already yielded since its cursor was last reset,
\* also when the file grows between the size measurement and the read.
C1_NoRedelivery ==
    (last_read.to > last_read.from /\ ~last_read.reset)
        => last_read.from >= last_read.mark

\* C2: at-least-once tailing: whenever the writer stands between two blocks
\* and the reader has caught up with the file (and no rotation removed bytes
\* the reader had not reached yet), every complete block written so far has
\* been handed to the parser as one whole block.
C2_AtLeastOnce ==
    (poll_pc = "idle" /\ main_pc = "loop" /\ last_position = Len(file)
        /\ wpos % BlockLen = 0 /\ ~unread_lost)
        => \A k \in 1..(wpos \div BlockLen) : k \in handed

\* C3: in watch mode, content appended to the log is eventually read even
\* when the notification for the append is missed (a periodic poll runs as
\* a backstop).
C3_BackstopPoll ==
    (mode = "watch" /\ last_position < Len(file)) ~> (last_position >= Len(file))

\* The same progress property for poll mode (a check of the formula itself).
PollModeProgress ==
    (mode = "poll" /\ last_position < Len(file)) ~> (last_position >= Len(file))

(***************************************************************************)
(* Claims about the store, single delivery and the retry sweep.            *)
(***************************************************************************)
LedgerOf(id) == SelectSeq(ledger, LAMBDA a : a.threat_id = id)

LastResponseOk ==
    ~last_send.resp.exc /\ last_send.resp.status = 200 /\ last_send.resp.json

\* C4: a persisted record whose one delivery failed is unsent, has
\* retry_count = 1 and exactly one ledger row, a failed one; after one
\* failed and then one successful delivery it is submitted and has exactly
\* two ledger rows, the second a successful one.
C4_FailThenRetry ==
    \A id \in AllIds :
        RowExists(threats, id) =>
            /\ (sent[id].fail = 1 /\ sent[id].ok = 0) =>
                  /\ ~RowOf(threats, id).submitted
                  /\ RetryCountOf(RowOf(threats, id)) = 1
                  /\ Len(LedgerOf(id)) = 1
                  /\ ~LedgerOf(id)[1].success
            /\ (sent[id].fail = 1 /\ sent[id].ok = 1 /\ last_send.id = id
                    /\ last_send.branch = "success") =>
                  /\ RowOf(threats, id).submitted
                  /\ Len(LedgerOf(id)) = 2
                  /\ LedgerOf(id)[2].success

\* C5: a record whose delivery always fails is sent by the retry sweep at
\* most retry_limit times (the sweep skips a record at the limit, for good).
C5_BoundedRetries ==
    \A id \in AllIds : sent[id].ok = 0 => sent[id].retries <= RetryLimit

\* C6: a step that calls mark_as_submitted once, with success = false, for
\* a record of the store (one the same step does not store anew) leaves the
\* record's submitted flag as it was and raises its retry_count by one.
C6_FailedMarkIncrements ==
    [][(/\ Len(mark_log') = Len(mark_log) + 1
        /\ ~mark_log'[Len(mark_log')].success
        /\ RowExists(threats, mark_log'[Len(mark_log')].threat_id)
        /\ \A ip \in SourceIps : mark_log'[Len(mark_log')].threat_id # GenId(now, ip))
        => LET id == mark_log'[Len(mark_log')].threat_id
           IN  /\ RowOf(threats', id).submitted = RowOf(threats, id).submitted
               /\ RetryCountOf(RowOf(threats', id))
                      = RetryCountOf(RowOf(threats, id)) + 1]_vars

\* C7: a retry round attempts every record it fetched that is under the
\* retry limit, going on to the next record after each attempt.
C7_SweepCoversAll ==
    last_sweep.ran =>
        \A k \in 1..Len(last_sweep.fetched) :
            (/\ RowExists(threats, last_sweep.fetched[k])
             /\ RetryCountOf(RowOf(threats, last_sweep.fetched[k])) < RetryLimit)
                => \E j \in 1..Len(last_sweep.attempted) :
                       last_sweep.attempted[j] = last_sweep.fetched[k]

C9_FailureRecorded ==
    (last_send.origin # "none" /\ last_send.branch # "success"
        /\ last_send.persisted)
        => /\ RowExists(threats, last_send.id)
           /\ ~RowOf(threats, last_send.id).submitted
           /\ \E k \in 1..Len(GetUnsentThreats(threats, UnsentLimit, local_behind_utc)) :
                 GetUnsentThreats(threats, UnsentLimit, local_behind_utc)[k].id
                    = last_send.id
           /\ Len(ledger) > 0
           /\ ledger[Len(ledger)]
                 = [threat_id |-> last_send.id, success |-> FALSE,
                    error_message |-> ErrorMessage(last_send.resp, last_send.branch)]

LastWrite(id) ==
    CHOOSE k \in 1..Len(writes) :
        /\ writes[k].id = id
        /\ \A j \in (k + 1)..Len(writes) : writes[j].id # id

RowsOf(rows, id) == {i \in 1..Len(rows) : rows[i].id = id}

\* C11: upsert is idempotent by id: after records with the same
\* caller-supplied id were stored, through store_threat or store_batch and in
\* any order, the table holds exactly one row for that id and its behavior is
\* the behavior of the last record written.
C11_LastWriteWins ==
    \A k \in 1..Len(writes) :
        writes[k].supplied
            => /\ Cardinality(RowsOf(threats, writes[k].id)) = 1
               /\ RowOf(threats, writes[k].id).behavior
                      = writes[LastWrite(writes[k].id)].behavior

\* two records with one supplied id and different behaviors, the first
\* through store_batch and the second through store_threat
C11_Witness ==
    /\ Len(writes) = 2
    /\ writes[1].supplied /\ writes[2].supplied
    /\ writes[1].id = writes[2].id
    /\ writes[1].behavior # writes[2].behavior
    /\ writes[1].op = "store_batch" /\ writes[2].op = "store_threat"
    /\ RowOf(threats, writes[2].id).behavior = writes[2].behavior

\* C12: upserting a record whose id already exists preserves the row's
\* original creation time, through store_threat and through store_batch: in
\* every step, a row that exists before and after it keeps its creation_time.
C12_CreationTimeKept ==
    [][\A id \in AllIds \cup CallerIds :
          (RowExists(threats, id) /\ RowExists(threats', id))
              => RowOf(threats', id).creation_time
                    = RowOf(threats, id).creation_time]_vars

\* C13: a record stored without an id receives a new unique id: any two
\* records stored without an id (two alerts from one source IP within one
\* second included) are filed under different ids and both have their row;
\* a record stored with an id is filed under that id.
C13_FreshIdPerRecord ==
    /\ \A i, j \in 1..Len(writes) :
          (i < j /\ ~writes[i].supplied /\ ~writes[j].supplied)
              => /\ writes[i].id # writes[j].id
                 /\ writes[i].stored /\ writes[j].stored
                 /\ RowExists(threats, writes[i].id)
                 /\ RowExists(threats, writes[j].id)
    /\ \A k \in 1..Len(writes) :
          writes[k].supplied => RowExists(threats, writes[k].id)

(***************************************************************************)
(* Claims about the record the tail loop builds.                           *)
(***************************************************************************)
\* the severity levels of a threat record
Severities == {"NORMAL", "LOW", "MEDIUM", "HIGH", "UNKNOWN"}

\* C14: for every valid alert block with both IPs present, the record the
\* pipeline (parse, classify, assess, build) yields, which the tail loop
\* posts to the sink, has a non-empty id and a severity in
\* {NORMAL, LOW, MEDIUM, HIGH, UNKNOWN}.
C14_RecordHasIdAndSeverity ==
    last_send.origin = "tail"
        => /\ HasId(last_send.record)
           /\ last_send.record.id # EmptyId
           /\ "severity" \in DOMAIN last_send.record
           /\ last_send.record.severity \in Severities

(***************************************************************************)
(* Claims about batch jobs.                                                *)
(***************************************************************************)
JobTransitions ==
    {<<"NONE", "PENDING">>, <<"PENDING", "PROCESSING">>,
     <<"PROCESSING", "COMPLETED">>, <<"PROCESSING", "FAILED">>}

\* C15: a job moves only along PENDING -> PROCESSING -> COMPLETED or
\* PROCESSING -> FAILED, for both workers: once accepted it is PENDING with
\* total = item count and completed = 0; it is PROCESSING before the first
\* item is taken; a terminal status is never left; end_time is set exactly
\* when the status is terminal.
C15_JobLifecycle ==
    [][/\ (job_pc' = "accepted" => job_data' = PendingJob(job_threats))
       /\ (job_data'.status # job_data.status
              => <<job_data.status, job_data'.status>> \in JobTransitions)
       /\ (idx' > 0 => job_data'.status \in {"PROCESSING", "COMPLETED", "FAILED"})
       /\ (IsTerminal(job_data'.status) <=> job_data'.end_time # "None")]_vars

\* C16: the status queries made while a job runs observe a completed value
\* that never decreases from one query to the next and never exceeds total,
\* also when the job store changes between Redis and the in-memory cache
\* between the writes and the reads of the snapshot.
C16_MonotoneProgress ==
    /\ \A i, j \in 1..Len(seen) :
          i < j => seen[i].completed <= seen[j].completed
    /\ \A i \in 1..Len(seen) : seen[i].completed <= seen[i].total

\* C17: when a job is COMPLETED, completed equals total and results has one
\* entry per input item, in input order: an error outcome for every item
\* whose pipeline raised and a success for every other item, whichever item
\* failed, the last one included.
C17_CompletedJobIsWhole ==
    job_data.status = "COMPLETED"
        => /\ job_data.completed = job_data.total
           /\ Len(job_data.results) = Len(job_threats)
           /\ \A k \in 1..Len(job_data.results) :
                 job_data.results[k]
                    = IF job_threats[k] = "raise" THEN FailedResult(k)
                      ELSE SuccessResult(k)

\* C18: in every snapshot a status query sees, the number of entries in
\* results equals completed.
C18_ResultsMatchCompleted ==
    \A i \in 1..Len(seen) : Len(seen[i].results) = seen[i].completed

\* C19: an exception raised while one item is processed never makes the job
\* FAILED and never keeps the remaining items from being processed: a job
\* with such an item ends COMPLETED with every item attempted.
C19_ItemFailureIsolated ==
    /\ (job_data.status = "FAILED"
           => \A k \in 1..idx : job_threats[k] # "raise")
    /\ (job_pc = "done" => idx = Len(job_threats))

(***************************************************************************)
(* Claims about concurrent writers.                                        *)
(***************************************************************************)
\* a call run alone, from its start to its end
ApplyCall(db, call) ==
    IF call.op = "store_threat"
    THEN [db EXCEPT !.threats = StoreThreat(@, call.record, now)]
    ELSE IF call.op = "store_batch"
         THEN [db EXCEPT !.threats = StoreBatch(@, <<call.record>>, now)]
         ELSE MarkAsSubmitted(db, call.record.id, call.success,
                              MarkError(call.success))

\* the orders in which the writers can run one after the other
WriterOrders ==
    {o \in [1..Cardinality(Writers) -> Writers] :
        \A i, j \in DOMAIN o : i # j => o[i] # o[j]}

RECURSIVE SerialResult(_, _, _)
SerialResult(db, order, k) ==
    IF k > Len(order) THEN db
    ELSE SerialResult(ApplyCall(db, sessions[order[k]].call), order, k + 1)

AllWritersDone ==
    DOMAIN sessions = Writers /\ \A w \in Writers : sessions[w].pc = "done"

\* C20: writes to one record are serialized: after any interleaving of the
\* tail loop, the retry sweep and a batch task on one id, the rows of the
\* table (the submitted flag among them) are what some sequential order of
\* the three calls leaves, and no upsert was rejected because of a
\* concurrent writer.
C20_WritesSerialized ==
    AllWritersDone
        => /\ \E o \in WriterOrders :
                 SerialResult([threats |-> <<>>, ledger |-> <<>>], o, 1).threats
                    = threats
           /\ \A w \in Writers : sessions[w].ok

(***************************************************************************)
(* The tail loop over alert blocks of different shapes (SpecParse): the    *)
(* sensor writes whole blocks, process_new_alerts measures, reads, parses  *)
(* every alert (SnortAlert.parse_alert), skips the ones without addresses  *)
(* and stores and sends the others.  A byte of the log is NL or the text   *)
(* of one line, named by what the line holds.                              *)
(***************************************************************************)
\* alert blocks the sensor writes
MaxShapes == 2

\* [**] [1:1000:1] name [**]
HeaderLine == 1
\* [Classification: label] [Priority: 2]
ClassLine == 2
\* 01/01-00:00:00.000000 10.0.0.1:1234 -> 10.0.0.2:80
IpLine == 3
\* the same line with addresses that IP_PATTERN's [\d\.]+ does not accept
BadIpLine == 4

\* the blocks the sensor may write: a whole alert, one without the
\* address line, one with unreadable addresses, one without the
\* classification line (its address line is the second line)
BlockShapes ==
    {<<HeaderLine, ClassLine, IpLine>>,
     <<HeaderLine, ClassLine>>,
     <<HeaderLine, ClassLine, BadIpLine>>,
     <<HeaderLine, IpLine>>}

\* the bytes of a block: every line with its newline, then the blank line
RECURSIVE WriteBlock(_)
WriteBlock(lines) ==
    IF lines = <<>> THEN <<NL>>
    ELSE <<Head(lines), NL>> \o WriteBlock(Tail(lines))

\* text.split('\n')
RECURSIVE SplitLines(_, _, _, _)
SplitLines(s, i, cur, acc) ==
    IF i > Len(s) THEN Append(acc, cur)
    ELSE IF s[i] = NL
         THEN SplitLines(s, i + 1, <<>>, Append(acc, cur))
         ELSE SplitLines(s, i + 1, Append(cur, s[i]), acc)

\* re.search(pattern, line), for the pattern that accepts the given text
Search(what, line) == \E i \in 1..Len(line) : line[i] = what

None == "None"

\* SnortAlert(log_entry): parse_alert fills the fields it finds; the
\* addresses are read from the third line only
SnortAlert(log_entry) ==
    LET lines == SplitLines(Strip(log_entry), 1, <<>>, <<>>)
        ip_match == Len(lines) > 2 /\ Search(IpLine, lines[3])
    IN  [signature |-> IF Search(HeaderLine, lines[1]) THEN "name" ELSE None,
         classification |-> IF Len(lines) > 1 /\ Search(ClassLine, lines[2])
                            THEN "label" ELSE None,
         source_ip |-> IF ip_match THEN "10.0.0.1" ELSE None,
         dest_ip |-> IF ip_match THEN "10.0.0.2" ELSE None]

\* if not threat_data["source_ip"] or not threat_data["destination_ip"]
MissingRequired(alert) == alert.source_ip = None \/ alert.dest_ip = None

\* new_content.split('\n\n') with the offset, in new_content, of the last
\* byte of every part
RECURSIVE SplitBlankAt(_, _, _, _)
SplitBlankAt(s, i, cur, acc) ==
    IF i > Len(s) THEN Append(acc, [text |-> cur, end |-> Len(s)])
    ELSE IF i < Len(s) /\ s[i] = NL /\ s[i + 1] = NL
         THEN SplitBlankAt(s, i + 2, <<>>,
                           Append(acc, [text |-> cur, end |-> i - 1]))
         ELSE SplitBlankAt(s, i + 1, Append(cur, s[i]), acc)

\* the alerts of one read, each with the file offset its part ends at
SplitAlertsAt(new_content, from) ==
    LET parts == SplitBlankAt(new_content, 1, <<>>, <<>>)
        stripped == [i \in 1..Len(parts) |->
                        [text |-> Strip(parts[i].text),
                         end |-> from + parts[i].end]]
    IN  SelectSeq(stripped, LAMBDA a : a.text # <<>>)

RECURSIVE ViableCount(_)
ViableCount(alerts) ==
    IF alerts = <<>> THEN 0
    ELSE (IF MissingRequired(SnortAlert(Head(alerts))) THEN 0 ELSE 1)
             + ViableCount(Tail(alerts))

\* the for loop of process_new_alerts over the alerts of one read: done
\* collects, per alert, what the loop did with it; j counts the alerts
\* that passed the test so far; batch_threats is the loop's list
RECURSIVE ProcessNewAlerts(_, _, _, _, _, _, _, _)
ProcessNewAlerts(st, alerts, resps, i, j, batch, batch_threats, done) ==
    IF i > Len(alerts)
    THEN [st |-> st, batch_threats |-> batch_threats, done |-> done]
    ELSE LET alert == SnortAlert(alerts[i])
         IN  IF MissingRequired(alert)
             THEN ProcessNewAlerts(st, alerts, resps, i + 1, j, batch,
                                   batch_threats,
                                   Append(done, [skipped |-> TRUE,
                                                 store_threat |-> FALSE,
                                                 delivery |-> "none"]))
             ELSE LET threat_data == ThreatData(alert.source_ip)
                  IN  ProcessNewAlerts(
                          ProcessAlerts(st, <<threat_data>>, <<resps[j + 1]>>,
                                        1, batch),
                          alerts, resps, i + 1, j + 1, batch,
                          Append(batch_threats, threat_data),
                          Append(done, [skipped |-> FALSE,
                                        store_threat |-> TRUE,
                                        delivery |-> IF batch THEN "pending_alerts"
                                                     ELSE "send_alert"]))

\* store_batch(batch_threats) that raises at the INSERT of item k (the
\* database is locked, the disk is full): every dict up to item k has been
\* given its id in place, and the dicts that still wait in pending_alerts
\* are the same objects; the except branch rolls the transaction back, so
\* no row of the table changes; process_new_alerts prints the error
StoreBatchRaises(st, batch_threats, t, k) ==
    LET n == Len(batch_threats)
        m == IF Len(st.pending_alerts) < n THEN Len(st.pending_alerts) ELSE n
        off == Len(st.pending_alerts) - m
    IN  [st EXCEPT !.pending_alerts =
            [p \in 1..Len(@) |->
                IF p > off /\ p - off + (n - m) <= k
                THEN WithId(@[p], t) ELSE @[p]]]

\* the ids of the rows of the table
RowIds(rows) == {rows[i].id : i \in 1..Len(rows)}

\* Environment: the sensor writes one more block, in one write
SensorWriteBlock ==
    /\ Len(SplitAlerts(file)) < MaxShapes
    /\ \E lines \in BlockShapes : file' = file \o WriteBlock(lines)
    /\ UNCHANGED <<wpos, rotations, mode, main_pc, notified, poll_pc,
                   last_position, current_size, truncated, last_read, hwm,
                   handed, unread_lost>>
    /\ UNCHANGED <<storeVars, callerVars, jobVars, raceVars, extVars, statsVars>>

\* process_new_alerts from the read on: the cursor is set to the size
\* measured before, the alerts are split, parsed and handled, and batch
\* mode ends with store_batch
ReadAndProcess ==
    /\ poll_pc = "read"
    /\ LET new_content == ReadFrom(file, last_position)
           found == SplitAlertsAt(new_content, last_position)
           alerts == [k \in 1..Len(found) |-> found[k].text]
       IN  /\ FirstBatchFits(ViableCount(alerts))
           /\ \E resps \in Answers(batch_mode, Len(pending_alerts),
                                   ViableCount(alerts)) :
                LET loop == ProcessNewAlerts(StoreState, alerts, resps, 1, 0,
                                             batch_mode, <<>>, <<>>)
                    calls_store_batch == batch_mode /\ loop.batch_threats # <<>>
                IN  \E fail_at \in 0..Len(loop.batch_threats) :
                    /\ fail_at > 0 => calls_store_batch
                    /\ Commit(IF fail_at = 0
                              THEN AfterLoop(loop.st, loop.batch_threats, now,
                                             batch_mode)
                              ELSE StoreBatchRaises(loop.st, loop.batch_threats,
                                                    now, fail_at))
                    /\ last_poll' =
                          [ran |-> TRUE,
                           from |-> last_position,
                           cursor |-> current_size,
                           store_batch |-> IF ~calls_store_batch THEN "none"
                                           ELSE IF fail_at = 0 THEN "stored"
                                           ELSE "raised",
                           batch_threats |-> loop.batch_threats,
                           posts |-> IF batch_mode
                                     THEN Cardinality({k \in 1..Len(resps) :
                                                         resps[k] # NoResponse})
                                     ELSE 0,
                           buffer_before |-> pending_alerts,
                           ids_before |-> RowIds(threats),
                           alerts |-> [k \in 1..Len(found) |->
                                          [text |-> found[k].text,
                                           end |-> found[k].end,
                                           skipped |-> loop.done[k].skipped,
                                           store_threat |-> loop.done[k].store_threat,
                                           delivery |-> loop.done[k].delivery]]]
    /\ last_position' = current_size
    /\ poll_pc' = "idle"
    /\ last_sweep' = NoSweep
    /\ UNCHANGED <<file, wpos, rotations, mode, main_pc, notified,
                   current_size, truncated, last_read, hwm, handed, unread_lost>>
    /\ UNCHANGED <<batch_mode, local_behind_utc, now>>
    /\ UNCHANGED <<callerVars, jobVars, raceVars, outageVars, shutdownVars,
                   classifyVars>>

NextParse ==
    \/ SensorWriteBlock
    \/ MainInitialPoll
    \/ PollModeTick
    \/ ReadAndProcess

InitParse ==
    /\ TailIdle /\ StoreInit /\ JobIdle /\ NoSessions /\ ExtIdle
    /\ local_behind_utc = FALSE

SpecParse == InitParse /\ [][NextParse]_vars

\* the alert text has no address line that IP_PATTERN accepts
Malformed(text) == ~Search(IpLine, text)

\* the alert text is a whole alert: header, classification, addresses
WholeAlert(text) == text = <<HeaderLine, NL, ClassLine, NL, IpLine>>

\* a malformed alert of the last poll is dropped untouched and every whole
\* alert of the same poll is stored and handed to delivery
MalformedDropped ==
    last_poll.ran =>
        \A k \in 1..Len(last_poll.alerts) :
            LET a == last_poll.alerts[k]
            IN  /\ Malformed(a.text) =>
                      a.skipped /\ ~a.store_threat /\ a.delivery = "none"
                /\ WholeAlert(a.text) =>
                      a.store_threat /\ a.delivery # "none"

(***************************************************************************)
(* C21: a malformed alert block (no address line, or addresses that do not *)
(* parse) is dropped without a store or delivery action, every other block *)
(* of the same poll is still processed, and after the poll the cursor is   *)
(* past the malformed block.                                               *)
(***************************************************************************)
C21_MalformedNeverHalts ==
    /\ MalformedDropped
    /\ last_poll.ran =>
          \A k \in 1..Len(last_poll.alerts) :
              Malformed(last_poll.alerts[k].text) =>
                  last_poll.cursor >= last_poll.alerts[k].end

\* the row holds the content of the record
HoldsRecord(row, threat_data) ==
    /\ row.source_ip = threat_data.source_ip
    /\ row.behavior = threat_data.behavior

(***************************************************************************)
(* C22: when store_batch raises in the middle of a batch, no record of     *)
(* that batch is visible in the store afterwards, also when store_batch is *)
(* called by the tail loop in batch mode: the poll whose store_batch       *)
(* raised has left no new row that holds a record of its batch.            *)
(***************************************************************************)
C22_NoPartialBatch ==
    (last_poll.ran /\ last_poll.store_batch = "raised") =>
        \A i \in 1..Len(threats) :
            threats[i].id \notin last_poll.ids_before =>
                \A k \in 1..Len(last_poll.batch_threats) :
                    ~HoldsRecord(threats[i], last_poll.batch_threats[k])

\* the place of a row in the table, whose rows stand in the order they
\* were created in
CreatedAt(id) == CHOOSE i \in 1..Len(threats) : threats[i].id = id

\* the ids are those of rows created one after the other
OldestFirst(ids) ==
    \A a, b \in 1..Len(ids) : a < b => CreatedAt(ids[a]) < CreatedAt(ids[b])

(***************************************************************************)
(* C23: a retry sweep takes the unsent records oldest first: the rows it   *)
(* fetched are in the order they were created in, the records it attempted *)
(* are the first of the fetched ones, in that order, and no unsent row     *)
(* that was left out is older than a fetched one.                          *)
(***************************************************************************)
C23_SweepOldestFirst ==
    last_sweep.ran =>
        /\ OldestFirst(last_sweep.fetched)
        /\ Len(last_sweep.attempted) <= Len(last_sweep.fetched)
        /\ \A k \in 1..Len(last_sweep.attempted) :
              last_sweep.attempted[k] = last_sweep.fetched[k]
        /\ \A i \in 1..Len(threats) :
              (~threats[i].submitted
                  /\ \A k \in 1..Len(last_sweep.fetched) :
                        last_sweep.fetched[k] # threats[i].id)
                 => \A k \in 1..Len(last_sweep.fetched) :
                       CreatedAt(last_sweep.fetched[k]) < i

(***************************************************************************)
(* get_stats (SpecStats): the store, the tail loop and the retry sweep as  *)
(* in Spec, and a caller that asks for the statistics.  Every submission   *)
(* attempt of the model is younger than the 24 hours the tally looks back. *)
(***************************************************************************)
\* the tally read from table threats instead of submission_attempts
GetStats_FromRecords(rows, attempts) ==
    LET total_count == Len(rows)
        submitted_count == Len(SelectSeq(rows, LAMBDA r : r.submitted))
    IN  [taken |-> TRUE,
         total_threats |-> total_count,
         submitted_threats |-> submitted_count,
         pending_threats |-> total_count - submitted_count,
         behavior_counts |->
             [b \in {rows[i].behavior : i \in 1..Len(rows)} |->
                 Len(SelectSeq(rows, LAMBDA r : r.behavior = b))],
         recent_submission_stats |->
             [success |-> submitted_count,
              failure |-> total_count - submitted_count]]

\* get_stats: three counts over table threats, one over submission_attempts
GetStats(rows, attempts) ==
    LET total_count == Len(rows)
        submitted_count == Len(SelectSeq(rows, LAMBDA r : r.submitted))
    IN  [taken |-> TRUE,
         total_threats |-> total_count,
         submitted_threats |-> submitted_count,
         pending_threats |-> total_count - submitted_count,
         behavior_counts |->
             [b \in {rows[i].behavior : i \in 1..Len(rows)} |->
                 Len(SelectSeq(rows, LAMBDA r : r.behavior = b))],
         recent_submission_stats |->
             [success |-> Len(SelectSeq(attempts, LAMBDA a : a.success)),
              failure |-> Len(SelectSeq(attempts, LAMBDA a : ~a.success))]]

\* a caller asks for the statistics
CallGetStats ==
    /\ stats' = GetStats(threats, ledger)
    /\ last_send' = NoSend
    /\ last_flush' = <<>>
    /\ last_sweep' = NoSweep
    /\ UNCHANGED <<batch_mode, local_behind_utc, now, threats, ledger,
                   pending_alerts, mark_log, sent>>
    /\ UNCHANGED <<tailVars, callerVars, jobVars, raceVars, extVars>>

NextStats ==
    \/ TailPoll
    \/ RetrySweep
    \/ Tick
    \/ CallGetStats

SpecStats == Init /\ [][NextStats]_vars

\* the calls of mark_as_submitted made so far that reported the outcome
MarksWith(success) == Len(SelectSeq(mark_log, LAMBDA c : c.success = success))

MaxCalls == 2

\* _get_connection: max_retries = 3
max_retries == 3

\* _get_connection: retry_delay = 1  # seconds
InitialRetryDelay == 1

StoreOps == {"store_threat", "store_batch", "mark_as_submitted"}

\* what the operation hands to its caller when an exception reaches its
\* handler: store_threat returns False, mark_as_submitted logs, rolls back
\* and falls off its end, store_batch rolls back and raises again
ResultOnError(name) ==
    IF name = "store_threat" THEN "False"
    ELSE IF name = "mark_as_submitted" THEN "None"
    ELSE "raised"

\* what the operation hands to its caller when every statement ran
ResultOnSuccess(name) ==
    IF name = "store_threat" THEN "True"
    ELSE IF name = "mark_as_submitted" THEN "None"
    ELSE "threat_ids"

\* the call returns, or raises, to its caller
Return(result, exhausted) ==
    /\ finished' = Append(finished, [name |-> store_call.name,
                                     slept |-> store_call.slept,
                                     exhausted |-> exhausted,
                                     result |-> result])
    /\ store_call' = NoCall

\* a caller enters a store operation
EnterStoreOp ==
    /\ store_call = NoCall
    /\ Len(finished) < MaxCalls
    /\ \E name \in StoreOps, threat_data \in CallerRecords, success \in BOOLEAN :
          /\ name # "mark_as_submitted" => success
          /\ name = "mark_as_submitted" => HasId(threat_data)
          /\ store_call' = [name |-> name, record |-> threat_data,
                            success |-> success, pc |-> "connect",
                            attempt |-> 0, retry_delay |-> InitialRetryDelay,
                            slept |-> <<>>]
    /\ UNCHANGED finished
    /\ UNCHANGED <<tailVars, storeVars, callerVars, jobVars, raceVars,
                   parseVars, shutdownVars, classifyVars, statsVars>>

\* _get_connection, one pass of its loop: sqlite3.connect succeeds, or it
\* raises sqlite3.Error and the loop sleeps retry_delay and doubles it, or,
\* on the last attempt, raises to the operation
ConnectAttempt ==
    /\ store_call # NoCall
    /\ store_call.pc = "connect"
    /\ \E connected \in BOOLEAN :
          IF connected
          THEN /\ store_call' = [store_call EXCEPT !.pc = "connected"]
               /\ UNCHANGED finished
          ELSE IF store_call.attempt < max_retries - 1
               THEN /\ store_call' =
                          [store_call EXCEPT
                              !.attempt = @ + 1,
                              !.slept = Append(@, store_call.retry_delay),
                              !.retry_delay = @ * 2]
                    /\ UNCHANGED finished
               ELSE Return(ResultOnError(store_call.name), TRUE)
    /\ UNCHANGED <<tailVars, storeVars, callerVars, jobVars, raceVars,
                   parseVars, shutdownVars, classifyVars, statsVars>>

\* the statements of the operation on the connection: they run and commit,
\* or one of them raises (the database is locked, the disk is full)
RunStatements ==
    /\ store_call # NoCall
    /\ store_call.pc = "connected"
    /\ \E ok \in BOOLEAN :
          IF ok
          THEN LET db == IF store_call.name = "store_threat"
                         THEN [threats |-> StoreThreat(threats, store_call.record, now),
                               ledger |-> ledger]
                         ELSE IF store_call.name = "store_batch"
                         THEN [threats |-> StoreBatch(threats, <<store_call.record>>, now),
                               ledger |-> ledger]
                         ELSE MarkAsSubmitted([threats |-> threats, ledger |-> ledger],
                                              store_call.record.id,
                                              store_call.success,
                                              MarkError(store_call.success))
               IN  /\ threats' = db.threats
                   /\ ledger' = db.ledger
                   /\ Return(ResultOnSuccess(store_call.name), FALSE)
          ELSE /\ UNCHANGED <<threats, ledger>>
               /\ Return(ResultOnError(store_call.name), FALSE)
    /\ UNCHANGED <<batch_mode, local_behind_utc, now, pending_alerts, mark_log,
                   sent, last_send, last_sweep, last_flush>>
    /\ UNCHANGED <<tailVars, callerVars, jobVars, raceVars, parseVars,
                   shutdownVars, classifyVars, statsVars>>

NextOutage ==
    \/ EnterStoreOp
    \/ ConnectAttempt
    \/ RunStatements

InitOutage == TailIdle /\ StoreIdle /\ JobIdle /\ NoSessions /\ ExtIdle

SpecOutage == InitOutage /\ [][NextOutage]_vars

\* the sleeps grow from one to the next
Increasing(delays) ==
    \A a, b \in 1..Len(delays) : a < b => delays[a] < delays[b]

(***************************************************************************)
(* C25: when the storage is unavailable the store retries with increasing  *)
(* backoff, and once the retries are exhausted the store operation that    *)
(* was called raises the error to its caller instead of returning as if it *)
(* had completed.                                                          *)
(***************************************************************************)
C25_ExhaustedIsFatal ==
    \A k \in 1..Len(finished) :
        finished[k].exhausted =>
            /\ Len(finished[k].slept) = max_retries - 1
            /\ Increasing(finished[k].slept)
            /\ finished[k].result = "raised"

(***************************************************************************)
(* Shutdown (SpecShutdown).  The connector installs no signal handler: the *)
(* interrupt signal raises KeyboardInterrupt in the main thread, between   *)
(* two of its statements or out of the call it is blocked in.  The         *)
(* handlers inside process_new_alerts, send_alert and the store catch      *)
(* Exception, which KeyboardInterrupt is not; poll_mode and watch_mode     *)
(* catch it.  The retry thread is a daemon thread: it ends, wherever it    *)
(* stands, when main() returns.  Delivery is single (batch mode off).      *)
(***************************************************************************)
\* alerts one poll reads
MaxPollAlerts == 2

\* the places of a thread at which an operation on one record is under
\* way: the record is stored (tail loop) or fetched (retry loop) and not
\* yet posted, or posted and the answer not yet handled
InFlight == {"stored", "fetched", "posted"}

\* process_new_alerts is called (poll_mode's loop, or the observer on a
\* file event) and reads n alerts; a stopped observer takes no new event
TailBeginPoll ==
    /\ ~exited /\ ~stopping
    /\ tail_pc = "idle"
    /\ \E n \in 1..MaxPollAlerts : tail_left' = n
    /\ tail_pc' = "next"
    /\ UNCHANGED <<watch, retry_unsent, retry_pc, stopping, exited, exit_log,
                   begun_after>>
    /\ UNCHANGED <<tailVars, storeVars, callerVars, jobVars, raceVars,
                   parseVars, outageVars, classifyVars, statsVars>>

\* the loop takes the next alert and stores it: self.db.store_threat
TailStoreThreat ==
    /\ ~exited
    /\ tail_pc = "next"
    /\ tail_pc' = "stored"
    /\ begun_after' = IF stopping THEN begun_after \cup {"tail"} ELSE begun_after
    /\ UNCHANGED <<watch, retry_unsent, tail_left, retry_pc, stopping, exited,
                   exit_log>>
    /\ UNCHANGED <<tailVars, storeVars, callerVars, jobVars, raceVars,
                   parseVars, outageVars, classifyVars, statsVars>>

\* send_alert: requests.post returns
TailPost ==
    /\ ~exited
    /\ tail_pc = "stored"
    /\ tail_pc' = "posted"
    /\ UNCHANGED <<watch, retry_unsent, tail_left, retry_pc, stopping, exited,
                   exit_log, begun_after>>
    /\ UNCHANGED <<tailVars, storeVars, callerVars, jobVars, raceVars,
                   parseVars, outageVars, classifyVars, statsVars>>

\* send_alert: the answer is handled (mark_as_submitted for a record with
\* an id); the loop goes to the next alert or the poll returns
TailHandleAnswer ==
    /\ ~exited
    /\ tail_pc = "posted"
    /\ tail_left' = tail_left - 1
    /\ tail_pc' = IF tail_left = 1 THEN "idle" ELSE "next"
    /\ UNCHANGED <<watch, retry_unsent, retry_pc, stopping, exited, exit_log,
                   begun_after>>
    /\ UNCHANGED <<tailVars, storeVars, callerVars, jobVars, raceVars,
                   parseVars, outageVars, classifyVars, statsVars>>

\* retry_unsent_alerts wakes, fetches the unsent records and takes the
\* first one
RetryBegin ==
    /\ ~exited
    /\ retry_pc = "sleep"
    /\ retry_pc' = "fetched"
    /\ begun_after' = IF stopping THEN begun_after \cup {"retry"} ELSE begun_after
    /\ UNCHANGED <<watch, retry_unsent, tail_pc, tail_left, stopping, exited,
                   exit_log>>
    /\ UNCHANGED <<tailVars, storeVars, callerVars, jobVars, raceVars,
                   parseVars, outageVars, classifyVars, statsVars>>

\* watcher.send_alert(threat): requests.post returns
RetryPost ==
    /\ ~exited
    /\ retry_pc = "fetched"
    /\ retry_pc' = "posted"
    /\ UNCHANGED <<watch, retry_unsent, tail_pc, tail_left, stopping, exited,
                   exit_log, begun_after>>
    /\ UNCHANGED <<tailVars, storeVars, callerVars, jobVars, raceVars,
                   parseVars, outageVars, classifyVars, statsVars>>

\* the answer is handled; watcher.db.update_retry_count raises
\* AttributeError, the round's handler catches it, the thread sleeps again
RetryHandleAnswer ==
    /\ ~exited
    /\ retry_pc = "posted"
    /\ retry_pc' = "sleep"
    /\ UNCHANGED <<watch, retry_unsent, tail_pc, tail_left, stopping, exited,
                   exit_log, begun_after>>
    /\ UNCHANGED <<tailVars, storeVars, callerVars, jobVars, raceVars,
                   parseVars, outageVars, classifyVars, statsVars>>

\* main() returns and the process ends: the daemon thread ends with it
ProcessEnds(at_tail) ==
    /\ exited' = TRUE
    /\ exit_log' = [tail_pc |-> at_tail, retry_pc |-> retry_pc]

\* The interrupt signal.  poll_mode: KeyboardInterrupt leaves
\* process_new_alerts where it stands, poll_mode logs and returns, main()
\* returns.  watch_mode: the main thread leaves its sleep and calls
\* observer.stop().
Interrupt ==
    /\ ~exited /\ ~stopping
    /\ stopping' = TRUE
    /\ IF watch
       THEN UNCHANGED <<exited, exit_log>>
       ELSE ProcessEnds(tail_pc)
    /\ UNCHANGED <<watch, retry_unsent, tail_pc, tail_left, retry_pc, begun_after>>
    /\ UNCHANGED <<tailVars, storeVars, callerVars, jobVars, raceVars,
                   parseVars, outageVars, classifyVars, statsVars>>

\* watch_mode: observer.join() returns once the observer's thread has ended
\* the call of process_new_alerts it was in; main() returns
ObserverJoined ==
    /\ ~exited /\ stopping /\ watch
    /\ tail_pc = "idle"
    /\ ProcessEnds(tail_pc)
    /\ UNCHANGED <<watch, retry_unsent, tail_pc, tail_left, retry_pc, stopping,
                   begun_after>>
    /\ UNCHANGED <<tailVars, storeVars, callerVars, jobVars, raceVars,
                   parseVars, outageVars, classifyVars, statsVars>>

NextShutdown ==
    \/ TailBeginPoll
    \/ TailStoreThreat
    \/ TailPost
    \/ TailHandleAnswer
    \/ RetryBegin
    \/ RetryPost
    \/ RetryHandleAnswer
    \/ Interrupt
    \/ ObserverJoined

InitShutdown ==
    /\ TailIdle /\ StoreIdle /\ JobIdle /\ NoSessions
    /\ ParseIdle /\ OutageIdle /\ ThreadsInit /\ ClassifyIdle

SpecShutdown == InitShutdown /\ [][NextShutdown]_vars

(***************************************************************************)
(* C26: on a shutdown signal the tail loop and the retry sweep loop end    *)
(* cleanly: when the process ends, neither loop stands inside an operation *)
(* on a record (the one in flight was finished), and neither has begun an  *)
(* operation after the signal.                                             *)
(***************************************************************************)
C26_CleanShutdown ==
    exited =>
        /\ exit_log.tail_pc \notin InFlight
        /\ exit_log.retry_pc \notin InFlight
        /\ begun_after = {}

(***************************************************************************)
(* The classification path: the behavior tag of an alert                   *)
(* (tools/snort_connector.py, SnortAlert.to_cybercare_threat) and the      *)
(* severity, confidence and techniques of a threat                         *)
(* (app/models/ai/threat_classifier.py, ThreatClassifier, called through   *)
(* app/services/threat_detection.py, analyze_threat).                      *)
(*                                                                         *)
(* A text is the tuple of its characters.  A value of a dictionary or of   *)
(* an alert field is None or a text.  A confidence is a number of          *)
(* hundredths: 0.5 is 50.                                                  *)
(***************************************************************************)
\* words of a payload text, at most
MaxWords == 2

UpperCase ==
    <<"A", "B", "C", "D", "E", "F", "G", "H", "I", "J", "K", "L", "M",
      "N", "O", "P", "Q", "R", "S", "T", "U", "V", "W", "X", "Y", "Z">>

LowerCase ==
    <<"a", "b", "c", "d", "e", "f", "g", "h", "i", "j", "k", "l", "m",
      "n", "o", "p", "q", "r", "s", "t", "u", "v", "w", "x", "y", "z">>

\* str.lower() of one character
LowerChar(c) ==
    IF \E i \in 1..Len(UpperCase) : UpperCase[i] = c
    THEN LowerCase[CHOOSE i \in 1..Len(UpperCase) : UpperCase[i] = c]
    ELSE c

\* s.lower()
Lower(s) == [i \in 1..Len(s) |-> LowerChar(s[i])]

\* k in s, for two texts
In(k, s) ==
    \E i \in 1..(Len(s) - Len(k) + 1) : SubSeq(s, i, i + Len(k) - 1) = k

\* the value None and the value that is a text
NoneValue == [none |-> TRUE]

Text(s) == [str |-> s]

\* str(v)
Str(v) == IF v = NoneValue THEN <<"N", "o", "n", "e">> ELSE v.str

\* the truth value of v in a condition: None and '' are false
Truthy(v) == v # NoneValue /\ v.str # <<>>

\* data.get(key, '')
Get(data, key) == IF key \in DOMAIN data THEN data[key] ELSE Text(<<>>)

\* the indicator lists of _basic_threat_analysis, in the order they are tried
high_indicators ==
    <<<<"m", "a", "l", "w", "a", "r", "e">>,
      <<"r", "a", "n", "s", "o", "m", "w", "a", "r", "e">>,
      <<"e", "x", "p", "l", "o", "i", "t">>,
      <<"a", "t", "t", "a", "c", "k">>,
      <<"v", "u", "l", "n", "e", "r", "a", "b", "i", "l", "i", "t", "y">>>>

medium_indicators ==
    <<<<"s", "c", "a", "n">>,
      <<"p", "r", "o", "b", "e">>,
      <<"s", "u", "s", "p", "i", "c", "i", "o", "u", "s">>,
      <<"u", "n", "u", "s", "u", "a", "l">>,
      <<"a", "d", "m", "i", "n">>>>

low_indicators ==
    <<<<"w", "a", "r", "n", "i", "n", "g">>,
      <<"n", "o", "t", "i", "c", "e">>,
      <<"a", "t", "t", "e", "m", "p", "t">>,
      <<"f", "a", "i", "l", "e", "d">>>>

\* any(indicator in payload or indicator in behavior for indicator in ...)
AnyIndicator(indicators, payload, behavior) ==
    \E i \in 1..Len(indicators) :
        In(indicators[i], payload) \/ In(indicators[i], behavior)

\* the mutant of BasicThreatAnalysis: the medium list is tried first
BasicThreatAnalysis_MediumFirst(data) ==
    LET payload == Lower(Str(Get(data, "payload")))
        behavior == Lower(Str(Get(data, "behavior")))
    IN  IF AnyIndicator(medium_indicators, payload, behavior) THEN "MEDIUM"
        ELSE IF AnyIndicator(high_indicators, payload, behavior) THEN "HIGH"
        ELSE IF AnyIndicator(low_indicators, payload, behavior) THEN "LOW"
        ELSE "NORMAL"

\* _basic_threat_analysis(data)
BasicThreatAnalysis(data) ==
    LET payload == Lower(Str(Get(data, "payload")))
        behavior == Lower(Str(Get(data, "behavior")))
    IN  IF AnyIndicator(high_indicators, payload, behavior) THEN "HIGH"
        ELSE IF AnyIndicator(medium_indicators, payload, behavior) THEN "MEDIUM"
        ELSE IF AnyIndicator(low_indicators, payload, behavior) THEN "LOW"
        ELSE "NORMAL"

\* _identify_techniques(data): every rule that holds appends its tag
IdentifyTechniques(data) ==
    LET payload == Lower(Str(Get(data, "payload")))
        behavior == Lower(Str(Get(data, "behavior")))
        protocol == Lower(Str(Get(data, "protocol")))
        Rule(holds, tag) == IF holds THEN <<tag>> ELSE <<>>
    IN  Rule(protocol = <<"h", "t", "t", "p">>
                 /\ In(<<"a", "d", "m", "i", "n">>, payload), "T1190")
        \o Rule(In(<<"s", "c", "a", "n">>, behavior)
                    \/ In(<<"s", "c", "a", "n", "n", "i", "n", "g">>, behavior),
                "T1046")
        \o Rule(In(<<"s", "e", "l", "e", "c", "t">>, payload)
                    /\ In(<<"f", "r", "o", "m">>, payload), "T1190")
        \o Rule(In(<<"b", "r", "u", "t", "e">>, behavior)
                    \/ In(<<"p", "a", "s", "s", "w", "o", "r", "d">>, payload),
                "T1110")
        \o Rule(In(<<"e", "x", "e", "c", "u", "t", "e">>, payload)
                    \/ In(<<"c", "m", "d">>, payload)
                    \/ In(<<"c", "o", "m", "m", "a", "n", "d">>, payload),
                "T1059")

\* severity_map of predict
severity_map == [c \in 0..3 |-> <<"NORMAL", "LOW", "MEDIUM", "HIGH">>[c + 1]]

\* is_ready after the deferred load of predict: _load_model does nothing
\* when the model is loaded or the dependencies are missing, and swallows
\* the exception of a load that fails
IsReadyAfterLoad(self, env) ==
    IF env.AI_DEPENDENCIES_AVAILABLE /\ ~self.is_ready
    THEN env.load = "ok"
    ELSE self.is_ready

\* the mutant of Predict: the exception of the model call is not caught
Predict_Propagates(self, data, env) ==
    LET techniques == IdentifyTechniques(data)
        is_ready == IsReadyAfterLoad(self, env)
    IN  IF ~is_ready
        THEN [raised |-> FALSE, severity |-> BasicThreatAnalysis(data),
              confidence |-> 50, techniques |-> techniques]
        ELSE IF env.run.throws
        THEN [raised |-> TRUE]
        ELSE [raised |-> FALSE, severity |-> severity_map[env.run.class],
              confidence |-> env.run.confidence, techniques |-> techniques]

\* predict(data) of a classifier self in the environment env: whether the
\* dependencies were imported, how a load of the model ends, and how a run
\* of the model ends
Predict(self, data, env) ==
    LET techniques == IdentifyTechniques(data)
        is_ready == IsReadyAfterLoad(self, env)
    IN  IF ~is_ready
        THEN [raised |-> FALSE, severity |-> BasicThreatAnalysis(data),
              confidence |-> 50, techniques |-> techniques]
        ELSE IF env.run.throws
        THEN [raised |-> FALSE, severity |-> BasicThreatAnalysis(data),
              confidence |-> 40, techniques |-> techniques]
        ELSE [raised |-> FALSE, severity |-> severity_map[env.run.class],
              confidence |-> env.run.confidence, techniques |-> techniques]

\* analyze_threat(data): an exception of predict becomes the default triple
AnalyzeThreat(self, data, env) ==
    LET result == Predict(self, data, env)
    IN  IF result.raised
        THEN [raised |-> FALSE, severity |-> "UNKNOWN", confidence |-> 0,
              techniques |-> <<>>]
        ELSE result

\* BEHAVIOR_MAPPING, key by key
BEHAVIOR_MAPPING ==
    <<[label |->
          <<"A", "t", "t", "e", "m", "p", "t", "e", "d", " ", "I", "n",
            "f", "o", "r", "m", "a", "t", "i", "o", "n", " ", "L", "e",
            "a", "k">>,
       behavior |-> "data_exfiltration"],
      [label |->
          <<"A", "t", "t", "e", "m", "p", "t", "e", "d", " ", "U", "s",
            "e", "r", " ", "P", "r", "i", "v", "i", "l", "e", "g", "e",
            " ", "G", "a", "i", "n">>,
       behavior |-> "privilege_escalation"],
      [label |->
          <<"W", "e", "b", " ", "A", "p", "p", "l", "i", "c", "a", "t",
            "i", "o", "n", " ", "A", "t", "t", "a", "c", "k">>,
       behavior |-> "web_attack"],
      [label |->
          <<"P", "o", "t", "e", "n", "t", "i", "a", "l", " ", "C", "o",
            "r", "p", "o", "r", "a", "t", "e", " ", "P", "r", "i", "v",
            "a", "c", "y", " ", "V", "i", "o", "l", "a", "t", "i", "o",
            "n">>,
       behavior |-> "data_exfiltration"],
      [label |->
          <<"E", "x", "e", "c", "u", "t", "a", "b", "l", "e", " ", "C",
            "o", "d", "e", " ", "w", "a", "s", " ", "D", "e", "t", "e",
            "c", "t", "e", "d">>,
       behavior |-> "malware"],
      [label |->
          <<"A", " ", "N", "e", "t", "w", "o", "r", "k", " ", "T", "r",
            "o", "j", "a", "n", " ", "w", "a", "s", " ", "D", "e", "t",
            "e", "c", "t", "e", "d">>,
       behavior |-> "malware"],
      [label |->
          <<"A", "t", "t", "e", "m", "p", "t", "e", "d", " ", "D", "e",
            "n", "i", "a", "l", " ", "o", "f", " ", "S", "e", "r", "v",
            "i", "c", "e">>,
       behavior |-> "dos"],
      [label |->
          <<"A", "t", "t", "e", "m", "p", "t", "e", "d", " ", "A", "d",
            "m", "i", "n", "i", "s", "t", "r", "a", "t", "o", "r", " ",
            "P", "r", "i", "v", "i", "l", "e", "g", "e", " ", "G", "a",
            "i", "n">>,
       behavior |-> "privilege_escalation"],
      [label |->
          <<"S", "u", "c", "c", "e", "s", "s", "f", "u", "l", " ", "A",
            "d", "m", "i", "n", "i", "s", "t", "r", "a", "t", "o", "r",
            " ", "P", "r", "i", "v", "i", "l", "e", "g", "e", " ", "G",
            "a", "i", "n">>,
       behavior |-> "privilege_escalation"],
      [label |->
          <<"S", "u", "c", "c", "e", "s", "s", "f", "u", "l", " ", "U",
            "s", "e", "r", " ", "P", "r", "i", "v", "i", "l", "e", "g",
            "e", " ", "G", "a", "i", "n">>,
       behavior |-> "privilege_escalation"],
      [label |->
          <<"P", "o", "t", "e", "n", "t", "i", "a", "l", "l", "y", " ",
            "B", "a", "d", " ", "T", "r", "a", "f", "f", "i", "c">>,
       behavior |-> "malware_c2"],
      [label |->
          <<"I", "n", "f", "o", "r", "m", "a", "t", "i", "o", "n", " ",
            "L", "e", "a", "k">>,
       behavior |-> "data_exfiltration"],
      [label |->
          <<"N", "e", "t", "w", "o", "r", "k", " ", "S", "c", "a", "n">>,
       behavior |-> "port_scan"],
      [label |->
          <<"S", "u", "s", "p", "i", "c", "i", "o", "u", "s", " ", "L",
            "o", "g", "i", "n">>,
       behavior |-> "brute_force"],
      [label |->
          <<"U", "n", "k", "n", "o", "w", "n", " ", "T", "r", "a", "f",
            "f", "i", "c">>,
       behavior |-> "suspicious_traffic"],
      [label |->
          <<"A", "c", "c", "e", "s", "s", " ", "t", "o", " ", "a", " ",
            "P", "o", "t", "e", "n", "t", "i", "a", "l", "l", "y", " ",
            "V", "u", "l", "n", "e", "r", "a", "b", "l", "e", " ", "W",
            "e", "b", " ", "A", "p", "p", "l", "i", "c", "a", "t", "i",
            "o", "n">>,
       behavior |-> "web_attack"],
      [label |->
          <<"G", "e", "n", "e", "r", "i", "c", " ", "P", "r", "o", "t",
            "o", "c", "o", "l", " ", "C", "o", "m", "m", "a", "n", "d",
            " ", "D", "e", "c", "o", "d", "e">>,
       behavior |-> "protocol_violation"]>>

\* BEHAVIOR_PATTERNS, key by key.  A pattern is the set of the texts it
\* accepts, in lower case: its alternatives with each of the two separators
BEHAVIOR_PATTERNS ==
    <<[pattern |->  \* SQL[_ ]Injection
          {<<"s", "q", "l", "_", "i", "n", "j", "e", "c", "t", "i", "o", "n">>,
           <<"s", "q", "l", " ", "i", "n", "j", "e", "c", "t", "i", "o", "n">>},
       behavior |-> "sql_injection"],
      [pattern |->  \* XSS|Cross[- ]Site
          {<<"x", "s", "s">>,
           <<"c", "r", "o", "s", "s", "-", "s", "i", "t", "e">>,
           <<"c", "r", "o", "s", "s", " ", "s", "i", "t", "e">>},
       behavior |-> "xss"],
      [pattern |->  \* Directory[_ ]Traversal
          {<<"d", "i", "r", "e", "c", "t", "o", "r", "y", "_", "t", "r", "a", "v", "e", "r", "s", "a", "l">>,
           <<"d", "i", "r", "e", "c", "t", "o", "r", "y", " ", "t", "r", "a", "v", "e", "r", "s", "a", "l">>},
       behavior |-> "path_traversal"],
      [pattern |->  \* Port[_ ]Scan
          {<<"p", "o", "r", "t", "_", "s", "c", "a", "n">>,
           <<"p", "o", "r", "t", " ", "s", "c", "a", "n">>},
       behavior |-> "port_scan"],
      [pattern |->  \* Brute[_ ]Force
          {<<"b", "r", "u", "t", "e", "_", "f", "o", "r", "c", "e">>,
           <<"b", "r", "u", "t", "e", " ", "f", "o", "r", "c", "e">>},
       behavior |-> "brute_force"],
      [pattern |->  \* DoS|Denial[_ ]of[_ ]Service
          {<<"d", "o", "s">>,
           <<"d", "e", "n", "i", "a", "l", "_", "o", "f", "_", "s", "e", "r", "v", "i", "c", "e">>,
           <<"d", "e", "n", "i", "a", "l", "_", "o", "f", " ", "s", "e", "r", "v", "i", "c", "e">>,
           <<"d", "e", "n", "i", "a", "l", " ", "o", "f", "_", "s", "e", "r", "v", "i", "c", "e">>,
           <<"d", "e", "n", "i", "a", "l", " ", "o", "f", " ", "s", "e", "r", "v", "i", "c", "e">>},
       behavior |-> "dos"],
      [pattern |->  \* DNS[_ ]Tunnel
          {<<"d", "n", "s", "_", "t", "u", "n", "n", "e", "l">>,
           <<"d", "n", "s", " ", "t", "u", "n", "n", "e", "l">>},
       behavior |-> "dns_tunneling"],
      [pattern |->  \* Command[_ ]Injection
          {<<"c", "o", "m", "m", "a", "n", "d", "_", "i", "n", "j", "e", "c", "t", "i", "o", "n">>,
           <<"c", "o", "m", "m", "a", "n", "d", " ", "i", "n", "j", "e", "c", "t", "i", "o", "n">>},
       behavior |-> "command_injection"],
      [pattern |->  \* Data[_ ]Exfiltration
          {<<"d", "a", "t", "a", "_", "e", "x", "f", "i", "l", "t", "r", "a", "t", "i", "o", "n">>,
           <<"d", "a", "t", "a", " ", "e", "x", "f", "i", "l", "t", "r", "a", "t", "i", "o", "n">>},
       behavior |-> "data_exfiltration"],
      [pattern |->  \* Malware
          {<<"m", "a", "l", "w", "a", "r", "e">>},
       behavior |-> "malware"],
      [pattern |->  \* C2|Command[_ ]and[_ ]Control
          {<<"c", "2">>,
           <<"c", "o", "m", "m", "a", "n", "d", "_", "a", "n", "d", "_", "c", "o", "n", "t", "r", "o", "l">>,
           <<"c", "o", "m", "m", "a", "n", "d", "_", "a", "n", "d", " ", "c", "o", "n", "t", "r", "o", "l">>,
           <<"c", "o", "m", "m", "a", "n", "d", " ", "a", "n", "d", "_", "c", "o", "n", "t", "r", "o", "l">>,
           <<"c", "o", "m", "m", "a", "n", "d", " ", "a", "n", "d", " ", "c", "o", "n", "t", "r", "o", "l">>},
       behavior |-> "malware_c2"]>>

\* re.search(pattern, signature, re.IGNORECASE)
SearchIgnoreCase(pattern, signature) ==
    \E accepted \in pattern : In(accepted, Lower(signature))

\* self.classification in BEHAVIOR_MAPPING
InMapping(classification) ==
    \E i \in 1..Len(BEHAVIOR_MAPPING) : BEHAVIOR_MAPPING[i].label = classification

\* BEHAVIOR_MAPPING[self.classification]
Mapped(classification) ==
    BEHAVIOR_MAPPING[CHOOSE i \in 1..Len(BEHAVIOR_MAPPING) :
                         BEHAVIOR_MAPPING[i].label = classification].behavior

\* the loop over BEHAVIOR_PATTERNS.items() from the i-th pattern on
RECURSIVE FirstPattern(_, _)
FirstPattern(signature, i) ==
    IF i > Len(BEHAVIOR_PATTERNS) THEN "unknown"
    ELSE IF Truthy(signature)
            /\ SearchIgnoreCase(BEHAVIOR_PATTERNS[i].pattern, signature.str)
         THEN BEHAVIOR_PATTERNS[i].behavior
         ELSE FirstPattern(signature, i + 1)

\* the mutant of ToCybercareThreat: the signature is tried before the label
ToCybercareThreat_SignatureFirst(alert) ==
    LET by_signature == FirstPattern(alert.signature, 1)
    IN  [behavior |->
            IF by_signature # "unknown" THEN by_signature
            ELSE IF Truthy(alert.classification)
                    /\ InMapping(alert.classification.str)
                 THEN Mapped(alert.classification.str)
                 ELSE "unknown",
         additional_data |->
            [snort_signature_name |-> alert.signature,
             snort_classification |-> alert.classification]]

\* to_cybercare_threat(): the behavior and the two fields it is decided
\* from; the other entries of the result copy fields of the alert
ToCybercareThreat(alert) ==
    [behavior |->
        IF Truthy(alert.classification) /\ InMapping(alert.classification.str)
        THEN Mapped(alert.classification.str)
        ELSE FirstPattern(alert.signature, 1),
     additional_data |->
        [snort_signature_name |-> alert.signature,
         snort_classification |-> alert.classification]]

(***************************************************************************)
(* The calls.  A text of a call is made of words of the lists below; a     *)
(* key of the dictionary may be missing and its value may be None.         *)
(***************************************************************************)
\* words of a payload
PayloadWords ==
    <<<<"G", "E", "T", " ", "/", "A", "d", "m", "i", "n", "?", "q", "=", "s", "e", "l", "e", "c", "t">>,
      <<"S", "E", "L", "E", "C", "T", " ", "n", "a", "m", "e">>,
      <<"F", "R", "O", "M", " ", "u", "s", "e", "r", "s">>,
      <<"p", "a", "s", "s", "w", "o", "r", "d", "=", "x">>,
      <<"c", "m", "d", ".", "e", "x", "e">>,
      <<"E", "x", "p", "l", "o", "i", "t">>,
      <<"l", "o", "g", "i", "n", " ", "f", "a", "i", "l", "e", "d">>,
      <<"h", "e", "l", "l", "o">>>>

\* behaviors: tags of to_cybercare_threat and free text of the API
BehaviorWords ==
    <<<<"u", "n", "k", "n", "o", "w", "n">>,
      <<"m", "a", "l", "w", "a", "r", "e", "_", "c", "2">>,
      <<"p", "o", "r", "t", "_", "s", "c", "a", "n">>,
      <<"b", "r", "u", "t", "e", "_", "f", "o", "r", "c", "e">>,
      <<"F", "a", "i", "l", "e", "d", "_", "L", "o", "g", "i", "n">>>>

\* protocols
ProtocolWords ==
    <<<<"H", "T", "T", "P">>,
      <<"t", "c", "p">>>>

\* classification labels of an alert
ClassificationWords ==
    <<<<"N", "e", "t", "w", "o", "r", "k", " ", "S", "c", "a", "n">>,
      <<"P", "o", "t", "e", "n", "t", "i", "a", "l", "l", "y", " ", "B", "a", "d", " ", "T", "r", "a", "f", "f", "i", "c">>,
      <<"W", "e", "b", " ", "A", "p", "p", "l", "i", "c", "a", "t", "i", "o", "n", " ", "A", "t", "t", "a", "c", "k">>,
      <<"M", "i", "s", "c", " ", "a", "c", "t", "i", "v", "i", "t", "y">>,
      <<"n", "e", "t", "w", "o", "r", "k", " ", "s", "c", "a", "n">>>>

\* signature names of an alert
SignatureWords ==
    <<<<"E", "T", " ", "S", "C", "A", "N", " ", "P", "o", "t", "e", "n", "t", "i", "a", "l", " ", "P", "o", "r", "t", " ", "S", "c", "a", "n">>,
      <<"S", "Q", "L", " ", "I", "n", "j", "e", "c", "t", "i", "o", "n", " ", "A", "t", "t", "e", "m", "p", "t">>,
      <<"B", "r", "u", "t", "e", " ", "F", "o", "r", "c", "e", " ", "t", "h", "e", "n", " ", "S", "Q", "L", "_", "i", "n", "j", "e", "c", "t", "i", "o", "n">>,
      <<"E", "T", " ", "M", "A", "L", "W", "A", "R", "E", " ", "C", "2", " ", "B", "e", "a", "c", "o", "n">>,
      <<"C", "r", "o", "s", "s", "-", "S", "i", "t", "e", " ", "S", "c", "r", "i", "p", "t", "i", "n", "g", " ", "X", "S", "S">>,
      <<"E", "T", " ", "D", "O", "S", " ", "D", "e", "n", "i", "a", "l", " ", "o", "f", " ", "S", "e", "r", "v", "i", "c", "e">>,
      <<"I", "C", "M", "P", " ", "P", "i", "n", "g">>,
      <<"C", "o", "m", "m", "a", "n", "d", " ", "a", "n", "d", " ", "C", "o", "n", "t", "r", "o", "l", " ", "v", "i", "a", " ", "D", "N", "S", " ", "T", "u", "n", "n", "e", "l">>,
      <<"D", "a", "t", "a", "_", "E", "x", "f", "i", "l", "t", "r", "a", "t", "i", "o", "n", " ", "o", "v", "e", "r", " ", "D", "N", "S", " ", "t", "u", "n", "n", "e", "l">>,
      <<"D", "i", "r", "e", "c", "t", "o", "r", "y", " ", "T", "r", "a", "v", "e", "r", "s", "a", "l", " ", ".", ".", "/">>,
      <<"O", "S", " ", "C", "o", "m", "m", "a", "n", "d", " ", "I", "n", "j", "e", "c", "t", "i", "o", "n">>,
      <<"G", "P", "L", " ", "S", "H", "E", "L", "L", "C", "O", "D", "E", " ", "x", "8", "6", " ", "N", "O", "O", "P">>>>

\* the port texts of an address line: (\d+) of IP_PATTERN
PortTexts ==
    <<<<"8", "0">>,
      <<"4", "4", "3">>,
      <<"2", "2">>,
      <<"2", "1">>,
      <<"2", "5">>,
      <<"5", "8", "7">>,
      <<"8", "0", "8", "0">>,
      <<"0", "8", "0">>,
      <<"0">>,
      <<"5", "1", "2", "3", "4">>,
      <<"2", "2", "2", "2">>,
      <<"5", "3">>>>

\* words[1] + ' ' + words[2] + ...
RECURSIVE JoinWords(_, _)
JoinWords(ws, Words) ==
    IF ws = <<>> THEN <<>>
    ELSE IF Len(ws) = 1 THEN Words[ws[1]]
    ELSE Words[ws[1]] \o <<" ">> \o JoinWords(Tail(ws), Words)

\* no key, the value None, or the text of up to n of the words
Choices(Words, n) ==
    {[kind |-> "absent"], [kind |-> "none"]}
        \cup {[kind |-> "text", words |-> ws] :
                ws \in UNION {[1..k -> 1..Len(Words)] : k \in 0..n}}

\* the value that was chosen
Value(choice, Words) ==
    IF choice.kind = "none" THEN NoneValue
    ELSE Text(JoinWords(choice.words, Words))

\* the dictionary of a call: threat_data.dict() of the API has every key,
\* the threats of a batch and of the connector may lack some
Data(a) ==
    LET chosen == [payload |-> a.payload, behavior |-> a.behavior,
                   protocol |-> a.protocol]
        words == [payload |-> PayloadWords, behavior |-> BehaviorWords,
                  protocol |-> ProtocolWords]
    IN  [key \in {k \in DOMAIN chosen : chosen[k].kind # "absent"} |->
            Value(chosen[key], words[key])]

\* the alert of a call
Alert(a) ==
    [classification |-> Value(a.classification, ClassificationWords),
     signature |-> Value(a.signature, SignatureWords)]

\* the dictionaries that are analysed
DataChoices ==
    [payload : Choices(PayloadWords, MaxWords),
     behavior : Choices(BehaviorWords, 1),
     protocol : Choices(ProtocolWords, 1)]

\* a run of the loaded model throws or returns a class and a confidence
Runs ==
    {[throws |-> TRUE]}
        \cup {[throws |-> FALSE, class |-> r[1], confidence |-> r[2]] :
                r \in {<<0, 97>>, <<1, 25>>, <<2, 50>>, <<3, 40>>}}

\* the classifier and its environment: is_ready is set by a load only, and
\* a load is tried only with the dependencies
Classifiers ==
    {c \in [is_ready : BOOLEAN, AI_DEPENDENCIES_AVAILABLE : BOOLEAN,
            load : {"ok", "fails"}, run : Runs] :
        /\ c.is_ready => c.AI_DEPENDENCIES_AVAILABLE
        /\ c.load = "fails" => c.AI_DEPENDENCIES_AVAILABLE /\ ~c.is_ready
        /\ c.run.throws = FALSE =>
              c.AI_DEPENDENCIES_AVAILABLE /\ (c.is_ready \/ c.load = "ok")}

Digits == <<"0", "1", "2", "3", "4", "5", "6", "7", "8", "9">>

\* int(text) of a text of decimal digits
RECURSIVE IntOf(_)
IntOf(text) ==
    IF text = <<>> THEN 0
    ELSE 10 * IntOf(SubSeq(text, 1, Len(text) - 1))
             + (CHOOSE d \in 0..9 : Digits[d + 1] = text[Len(text)])

\* the protocol parse_alert infers from a port
InferProtocol(port) ==
    IF port = 80 \/ port = 443 THEN (IF port = 80 THEN "HTTP" ELSE "HTTPS")
    ELSE IF port = 22 THEN "SSH"
    ELSE IF port = 21 THEN "FTP"
    ELSE IF port = 25 \/ port = 587 THEN "SMTP"
    ELSE "TCP"

\* the mutant of ParsePorts: a well-known source port decides as well
ParsePorts_EitherPort(source_text, dest_text) ==
    LET source_port == IntOf(source_text)
        dest_port == IntOf(dest_text)
    IN  [source_port |-> source_port,
         dest_port |-> dest_port,
         protocol |-> IF InferProtocol(dest_port) # "TCP"
                      THEN InferProtocol(dest_port)
                      ELSE InferProtocol(source_port)]

\* parse_alert on an address line that matches IP_PATTERN: the two ports
\* and the protocol
ParsePorts(source_text, dest_text) ==
    LET source_port == IntOf(source_text)
        dest_port == IntOf(dest_text)
    IN  [source_port |-> source_port,
         dest_port |-> dest_port,
         protocol |-> InferProtocol(dest_port)]

\* a field of an alert is None (the line did not match) or a text; only
\* to_cybercare_threat of an alert with addresses is used
AlertChoices ==
    [classification : Choices(ClassificationWords, 1) \ {[kind |-> "absent"]},
     signature : Choices(SignatureWords, 1) \ {[kind |-> "absent"]}]

Calls ==
    {[fn |-> "analyze_threat", data |-> d, classifier |-> c] :
        d \in DataChoices, c \in Classifiers}
        \cup {[fn |-> f, data |-> d] :
                f \in {"_basic_threat_analysis", "_identify_techniques"},
                d \in DataChoices}
        \cup {[fn |-> "to_cybercare_threat", alert |-> al] : al \in AlertChoices}
        \cup {[fn |-> "parse_alert", source_port |-> sp, dest_port |-> dp] :
                sp \in 1..Len(PortTexts), dp \in 1..Len(PortTexts)}

Returned(value) == [done |-> TRUE, value |-> value]

CallAnalyzeThreat ==
    /\ args.fn = "analyze_threat"
    /\ returned = NoReturn
    /\ returned' = Returned(AnalyzeThreat([is_ready |-> args.classifier.is_ready],
                                        Data(args.data), args.classifier))
    /\ UNCHANGED <<args, tailVars, storeVars, callerVars, jobVars, raceVars,
                   parseVars, outageVars, shutdownVars, statsVars>>

CallBasicThreatAnalysis ==
    /\ args.fn = "_basic_threat_analysis"
    /\ returned = NoReturn
    /\ returned' = Returned(BasicThreatAnalysis(Data(args.data)))
    /\ UNCHANGED <<args, tailVars, storeVars, callerVars, jobVars, raceVars,
                   parseVars, outageVars, shutdownVars, statsVars>>

CallIdentifyTechniques ==
    /\ args.fn = "_identify_techniques"
    /\ returned = NoReturn
    /\ returned' = Returned(IdentifyTechniques(Data(args.data)))
    /\ UNCHANGED <<args, tailVars, storeVars, callerVars, jobVars, raceVars,
                   parseVars, outageVars, shutdownVars, statsVars>>

CallToCybercareThreat ==
    /\ args.fn = "to_cybercare_threat"
    /\ returned = NoReturn
    /\ returned' = Returned(ToCybercareThreat(Alert(args.alert)))
    /\ UNCHANGED <<args, tailVars, storeVars, callerVars, jobVars, raceVars,
                   parseVars, outageVars, shutdownVars, statsVars>>

CallParseAlert ==
    /\ args.fn = "parse_alert"
    /\ returned = NoReturn
    /\ returned' = Returned(ParsePorts(PortTexts[args.source_port],
                                       PortTexts[args.dest_port]))
    /\ UNCHANGED <<args, tailVars, storeVars, callerVars, jobVars, raceVars,
                   parseVars, outageVars, shutdownVars, statsVars>>

NextClassify ==
    \/ CallParseAlert
    \/ CallAnalyzeThreat
    \/ CallBasicThreatAnalysis
    \/ CallIdentifyTechniques
    \/ CallToCybercareThreat

InitClassify ==
    /\ TailIdle /\ StoreIdle /\ JobIdle /\ NoSessions
    /\ ParseIdle /\ OutageIdle /\ ShutdownIdle
    /\ args \in Calls
    /\ returned = NoReturn

SpecClassify == InitClassify /\ [][NextClassify]_vars

\* The keywords a reader finds in each word of PayloadWords and of
\* BehaviorWords, whatever their case.
PayloadSays ==
    <<{"admin", "select"}, {"select"}, {"from"}, {"password"}, {"cmd"},
      {"exploit"},
      {"failed"}, {}>>

BehaviorSays == <<{}, {"malware"}, {"scan"}, {"brute"}, {"failed"}>>

\* the keywords of a chosen value: None and a missing key have none
Says(choice, WordSays) ==
    IF choice.kind = "text"
    THEN UNION {WordSays[choice.words[i]] : i \in 1..Len(choice.words)}
    ELSE {}

\* the keywords of the payload and of the behavior of a dictionary
Keywords(d) == Says(d.payload, PayloadSays) \cup Says(d.behavior, BehaviorSays)

\* the severity the keyword precedence gives
ByPrecedence(keywords) ==
    IF keywords \cap {"malware", "ransomware", "exploit", "attack",
                      "vulnerability"} # {} THEN "HIGH"
    ELSE IF keywords \cap {"scan", "probe", "suspicious", "unusual",
                           "admin"} # {} THEN "MEDIUM"
    ELSE IF keywords \cap {"warning", "notice", "attempt", "failed"} # {}
         THEN "LOW"
    ELSE "NORMAL"

\* no model can be run: the dependencies are missing or the load fails
NoModel(c) ==
    ~c.AI_DEPENDENCIES_AVAILABLE \/ (~c.is_ready /\ c.load = "fails")

(***************************************************************************)
(* C27: a failure of the classification never reaches the caller of        *)
(* analyze_threat.  With no model available the severity is the heuristic  *)
(* one and the confidence 0.5; when the run of the model throws, the       *)
(* severity is the heuristic one and the confidence 0.4; in every case the *)
(* call returns a (severity, confidence, techniques) triple.               *)
(***************************************************************************)
C27_FailureNeverPropagates ==
    (args.fn = "analyze_threat" /\ returned.done) =>
        LET c == args.classifier
            result == returned.value
            heuristic == ByPrecedence(Keywords(args.data))
        IN  /\ ~result.raised
            /\ result.severity \in {"NORMAL", "LOW", "MEDIUM", "HIGH", "UNKNOWN"}
            /\ result.confidence \in 0..100
            /\ result.techniques \in Seq({"T1190", "T1046", "T1110", "T1059"})
            /\ NoModel(c) =>
                  result.severity = heuristic /\ result.confidence = 50
            /\ (~NoModel(c) /\ c.run.throws) =>
                  result.severity = heuristic /\ result.confidence = 40

\* the loaded model threw on a payload with an exploit: HIGH at 0.4
C27_Witness ==
    /\ args.fn = "analyze_threat"
    /\ returned.done
    /\ args.classifier.is_ready
    /\ args.classifier.run.throws
    /\ "exploit" \in Keywords(args.data)
    /\ returned.value.severity = "HIGH"
    /\ returned.value.confidence = 40
    /\ ~returned.value.raised

(***************************************************************************)
(* C28: the heuristic severity follows a strict precedence over the text   *)
(* of the payload and of the behavior: HIGH when any high keyword is       *)
(* there, otherwise MEDIUM when any medium keyword is there, otherwise LOW *)
(* when any low keyword is there, otherwise NORMAL.                        *)
(***************************************************************************)
C28_SeverityByPrecedence ==
    (args.fn = "_basic_threat_analysis" /\ returned.done) =>
        returned.value = ByPrecedence(Keywords(args.data))

\* the behavior malware_c2 with no payload (no key or None) was rated HIGH
C28_Witness ==
    /\ args.fn = "_basic_threat_analysis"
    /\ returned.done
    /\ args.data.payload.kind \in {"absent", "none"}
    /\ args.data.behavior.kind = "text"
    /\ Value(args.data.behavior, BehaviorWords)
           = Text(<<"m", "a", "l", "w", "a", "r", "e", "_", "c", "2">>)
    /\ returned.value = "HIGH"

\* The table entry a reader finds for each label of ClassificationWords
\* ("" when the label is not a key of the table), and the fallback rules,
\* numbered in their listed order, a reader finds matching each signature
\* of SignatureWords.
ClassificationSays == <<"port_scan", "malware_c2", "web_attack", "", "">>

SignatureSays ==
    <<{4}, {1}, {1, 5}, {10, 11}, {2}, {6}, {}, {7, 11}, {7, 9}, {3}, {8}, {}>>

\* the tags of the fallback rules in their listed order
RuleTags ==
    <<"sql_injection", "xss", "path_traversal", "port_scan", "brute_force",
      "dos", "dns_tunneling", "command_injection", "data_exfiltration",
      "malware", "malware_c2">>

\* the table entry of the chosen label, "" without one
LabelSays(choice) ==
    IF choice.kind = "text" /\ choice.words # <<>>
    THEN ClassificationSays[choice.words[1]]
    ELSE ""

\* the rules that match the chosen signature
RulesSay(choice) ==
    IF choice.kind = "text" /\ choice.words # <<>>
    THEN SignatureSays[choice.words[1]]
    ELSE {}

\* the first of a set of rules
FirstRule(rules) == CHOOSE r \in rules : \A other \in rules : r <= other

(***************************************************************************)
(* C29: the behavior tag of an alert is the table entry of its             *)
(* classification label when the label is in the table (whatever the       *)
(* signature matches); otherwise the tag of the first fallback rule, in    *)
(* the listed order, whose pattern matches the signature name; otherwise   *)
(* unknown.                                                                *)
(***************************************************************************)
C29_BehaviorTag ==
    (args.fn = "to_cybercare_threat" /\ returned.done) =>
        LET entry == LabelSays(args.alert.classification)
            rules == RulesSay(args.alert.signature)
        IN  returned.value.behavior =
                IF entry # "" THEN entry
                ELSE IF rules # {} THEN RuleTags[FirstRule(rules)]
                ELSE "unknown"

\* a label of the table won over a signature that matches a rule with
\* another tag
C29_Witness ==
    /\ args.fn = "to_cybercare_threat"
    /\ returned.done
    /\ LabelSays(args.alert.classification) # ""
    /\ RulesSay(args.alert.signature) # {}
    /\ RuleTags[FirstRule(RulesSay(args.alert.signature))]
           # LabelSays(args.alert.classification)
    /\ returned.value.behavior = LabelSays(args.alert.classification)

\* the tags of the rules of _identify_techniques in the order they are tried
RuleOrder == <<"T1190", "T1046", "T1190", "T1110", "T1059">>

\* a sequence without a repeated element
NoRepeat(s) == \A i, j \in 1..Len(s) : i # j => s[i] # s[j]

\* s keeps the order of the sequence all
RECURSIVE InOrderOf(_, _)
InOrderOf(s, all) ==
    IF s = <<>> THEN TRUE
    ELSE IF all = <<>> THEN FALSE
    ELSE IF Head(s) = Head(all) THEN InOrderOf(Tail(s), Tail(all))
    ELSE InOrderOf(s, Tail(all))

(***************************************************************************)
(* C30: the techniques of a threat are an ordered set: every technique tag *)
(* at most once, in the order in which the rules detect them, for every    *)
(* protocol, payload and behavior.                                         *)
(***************************************************************************)
C30_TechniquesOrderedSet ==
    (args.fn = "_identify_techniques" /\ returned.done) =>
        /\ NoRepeat(returned.value)
        /\ InOrderOf(returned.value, RuleOrder)

\* The port number a reader finds in each text of PortTexts.
PortSays == <<80, 443, 22, 21, 25, 587, 8080, 80, 0, 51234, 2222, 53>>

\* the protocol the specification lists for a destination port
ListedProtocol(port) ==
    CASE port = 80 -> "HTTP"
      [] port = 443 -> "HTTPS"
      [] port = 22 -> "SSH"
      [] port = 21 -> "FTP"
      [] port \in {25, 587} -> "SMTP"
      [] OTHER -> "TCP"

(***************************************************************************)
(* C31: the protocol of a parsed alert is derived from the destination     *)
(* port alone: 80 gives HTTP, 443 HTTPS, 22 SSH, 21 FTP, 25 or 587 SMTP,   *)
(* and every other port TCP, whatever the source port is.                  *)
(***************************************************************************)
C31_ProtocolFromDestPort ==
    (args.fn = "parse_alert" /\ returned.done) =>
        /\ returned.value.protocol = ListedProtocol(PortSays[args.dest_port])
        /\ returned.value.dest_port = PortSays[args.dest_port]

\* an alert from port 80 to port 587 was parsed as SMTP
C31_Witness ==
    /\ args.fn = "parse_alert"
    /\ returned.done
    /\ PortSays[args.source_port] = 80
    /\ PortSays[args.dest_port] = 587
    /\ returned.value.protocol = "SMTP"

\* the alerts of the last poll that passed the address test
ViableOfPoll ==
    SelectSeq(last_poll.alerts, LAMBDA a : ~a.skipped)

(***************************************************************************)
(* C32: with a working store, the N viable alerts of a poll in             *)
(* single-delivery mode leave N new rows in table threats, each stored     *)
(* before its delivery is attempted, and delivery marks the outcome under  *)
(* the id of the alert's row.                                              *)
(***************************************************************************)
C32_RowPerAlert ==
    (last_poll.ran /\ ~batch_mode /\ ViableOfPoll # <<>>) =>
        /\ Cardinality(RowIds(threats) \ last_poll.ids_before)
               = Len(ViableOfPoll)
        /\ last_send.origin = "tail"
        /\ last_send.persisted
        /\ last_send.marked
        /\ last_send.record.id \in RowIds(threats)

(***************************************************************************)
(* C33: a record that was delivered successfully is excluded from          *)
(* get_unsent_threats from then on, so that no later retry sweep sends it  *)
(* to the sink again.                                                      *)
(***************************************************************************)
C33_DeliveredIsExcluded ==
    \A i \in 1..Len(threats) :
        sent[threats[i].id].ok > 0 => threats[i].submitted

(***************************************************************************)
(* C34: the submitted flag of a record is monotonic: no step of the store  *)
(* (store_threat, store_batch writing the same id again, a failed          *)
(* mark_as_submitted) takes a row whose flag is set to a row of the same   *)
(* id whose flag is not.                                                   *)
(***************************************************************************)
C34_SubmittedMonotonic ==
    [][\A i \in 1..Len(threats) :
          threats[i].submitted =>
              \A j \in 1..Len(threats') :
                  threats'[j].id = threats[i].id => threats'[j].submitted]_vars

(***************************************************************************)
(* The retry thread under fair scheduling.  A round is RetrySweep without  *)
(* the history of how often every record was sent, so that the thread can  *)
(* go round for ever.                                                      *)
(***************************************************************************)
RetryRound ==
    LET unsent_threats == GetUnsentThreats(threats, UnsentLimit, local_behind_utc)
    IN  /\ unsent_threats # <<>>
        /\ \E resp \in SinkResponses :
              LET threat == unsent_threats[1]
                  st == SendAlert(StoreState, threat, resp, "sweep", TRUE, threat.id)
              IN  /\ "update_retry_count" \notin DatabaseConnectorMethods
                  /\ Commit([st EXCEPT !.sent = sent])
                  /\ last_sweep' =
                        [ran |-> TRUE,
                         fetched |-> [k \in 1..Len(unsent_threats) |->
                                         unsent_threats[k].id],
                         attempted |-> <<threat.id>>]
        /\ UNCHANGED <<batch_mode, local_behind_utc, now>>
        /\ UNCHANGED <<tailVars, callerVars, jobVars, raceVars, extVars>>

NextSweep ==
    \/ TailPoll
    \/ RetryRound
    \/ Tick

FairSweep == Init /\ [][NextSweep]_vars /\ WF_vars(RetryRound)

\* the record of the id is in the table and unsent
Unsent(id) ==
    \E i \in 1..Len(threats) : threats[i].id = id /\ ~threats[i].submitted

\* the last step was a sweep that sent the record of the id
Attempted(id) ==
    /\ last_sweep.ran
    /\ \E k \in 1..Len(last_sweep.attempted) : last_sweep.attempted[k] = id

(***************************************************************************)
(* C35: under fair scheduling of the retry thread every unsent record is   *)
(* eventually attempted by a sweep (no record has a retry count that could *)
(* reach the limit); it is not starved by older unsent records or by an    *)
(* error raised while the sweep handles an earlier record.  A behavior in  *)
(* which the bounds of the model end the rounds is not held against the    *)
(* thread.                                                                 *)
(***************************************************************************)
C35_NoStarvation ==
    \A id \in AllIds :
        Unsent(id) ~> (Attempted(id) \/ ~Unsent(id) \/ ~ENABLED RetryRound)

\* the schedulers of the tail loop keep running: the first poll of main,
\* the loop of poll_mode, and a poll that has measured goes on to read
\* process_new_alerts returns: the step of ReadAndProcess, told by the
\* position of the poll alone
PollReturns == poll_pc = "read" /\ poll_pc' = "idle"

FairParse ==
    /\ SpecParse
    /\ WF_vars(MainInitialPoll)
    /\ WF_vars(PollModeTick)
    /\ WF_poll_pc(PollReturns)

\* the last poll buffered alerts in batch mode and made no batch request
BufferedUnposted ==
    /\ last_poll.ran
    /\ batch_mode
    /\ ViableOfPoll # <<>>
    /\ last_poll.posts = 0

\* the last poll made a batch request
BatchPosted == last_poll.ran /\ last_poll.posts > 0

(***************************************************************************)
(* C36: in batch mode every viable alert read from the log is eventually   *)
(* posted to the batch endpoint, also when the number of alerts read is    *)
(* not a multiple of batch_size and no further alert arrives: alerts that  *)
(* a poll buffered without a request go out with a later request.          *)
(***************************************************************************)
C36_BatchEventuallyPosted == BufferedUnposted ~> BatchPosted

\* the sink accepted the batch request: an answer with status 200 or 202
AcceptedPost(resp) == ~resp.exc /\ resp.status \in {200, 202}

\* the buffer starts with the given dicts, whatever ids they were given since
HoldsFirst(buffer, dicts) ==
    /\ Len(buffer) >= Len(dicts)
    /\ \A p \in 1..Len(dicts) :
          /\ buffer[p].source_ip = dicts[p].source_ip
          /\ buffer[p].behavior = dicts[p].behavior

(***************************************************************************)
(* C37: an alert leaves the pending buffer only through an accepted batch  *)
(* request (200 or 202).  Every request posts the whole buffer; after an   *)
(* accepted one the buffer is empty, after a rejected one or a transport   *)
(* error it holds exactly the alerts it held before, so the next request   *)
(* posts them again, and they are still first in the buffer when the poll  *)
(* has ended.                                                              *)
(***************************************************************************)
C37_LeavesOnlyWhenAccepted ==
    \A k \in 1..Len(last_flush) :
        LET request == last_flush[k]
        IN  /\ request.threats # <<>>
            /\ AcceptedPost(request.resp) => request.left = <<>>
            /\ ~AcceptedPost(request.resp) => request.left = request.threats
            /\ (k < Len(last_flush) /\ ~AcceptedPost(request.resp))
                  => HoldsFirst(last_flush[k + 1].threats, request.threats)
            /\ (k = Len(last_flush) /\ ~AcceptedPost(request.resp))
                  => HoldsFirst(pending_alerts, request.threats)

\* a poll whose first request was rejected and whose second request, with
\* the same alerts and one more, was accepted
C37_Witness ==
    /\ Len(last_flush) = 2
    /\ ~last_flush[1].resp.exc /\ last_flush[1].resp.status = 500
    /\ AcceptedPost(last_flush[2].resp)
    /\ Len(last_flush[2].threats) = Len(last_flush[1].threats) + 1
    /\ pending_alerts = <<>>

(***************************************************************************)
(* C38: every row of submission_attempts refers to an existing row of      *)
(* threats, in every reachable state: mark_as_submitted writes no attempt  *)
(* for an id that has no threat row.                                       *)
(***************************************************************************)
C38_LedgerRefersToThreat ==
    \A k \in 1..Len(ledger) : RowExists(threats, ledger[k].threat_id)

(***************************************************************************)
(* The tail loop started on a database file that an earlier run left       *)
(* behind: CREATE TABLE IF NOT EXISTS keeps its rows, here the row that    *)
(* store_threat wrote under the id ''.                                     *)
(***************************************************************************)
InitRestart ==
    /\ TailIdle /\ JobIdle /\ NoSessions /\ ExtIdle
    /\ batch_mode \in BOOLEAN
    /\ local_behind_utc = FALSE
    /\ now = 0
    /\ \E ip \in SourceIps : threats = StoreThreat(<<>>, ThreatData(ip), 0)
    /\ ledger = <<>>
    /\ pending_alerts = <<>>
    /\ mark_log = <<>>
    /\ sent = [id \in AllIds |-> [ok |-> 0, fail |-> 0, retries |-> 0]]
    /\ last_send = NoSend
    /\ last_sweep = NoSweep
    /\ last_flush = <<>>
    /\ writes = <<>>
    /\ stats = NoStats

SpecRestart == InitRestart /\ [][NextParse]_vars

\* the dicts that left the buffer with the accepted requests of the list
RECURSIVE PostedCount(_)
PostedCount(requests) ==
    IF requests = <<>> THEN 0
    ELSE (IF AcceptedPost(Head(requests).resp)
          THEN Len(Head(requests).threats) ELSE 0)
             + PostedCount(Tail(requests))

(***************************************************************************)
(* C39: a failure of the store while the tail loop persists an alert does  *)
(* not keep the alert from being delivered, and the alerts after it in the *)
(* same poll are handled as well.  After a poll every viable alert has     *)
(* been handed on: in single mode the last request to the sink carried the *)
(* last viable alert, stored or not; in batch mode every viable alert is   *)
(* in the buffer or went out with an accepted request.                     *)
(***************************************************************************)
C39_StoreFailureKeepsDelivery ==
    (last_poll.ran /\ ViableOfPoll # <<>>) =>
        /\ \A k \in 1..Len(ViableOfPoll) :
              /\ ViableOfPoll[k].store_threat
              /\ ViableOfPoll[k].delivery =
                    (IF batch_mode THEN "pending_alerts" ELSE "send_alert")
        /\ ~batch_mode =>
              /\ last_send.origin = "tail"
              /\ last_send.resp \in SinkResponses
              /\ last_send.record.source_ip =
                    SnortAlert(ViableOfPoll[Len(ViableOfPoll)].text).source_ip
        /\ batch_mode =>
              Len(pending_alerts) + PostedCount(last_flush)
                  = Len(last_poll.buffer_before) + Len(ViableOfPoll)

\* a poll of two viable alerts in single mode that found the row with id ''
\* in the table: store_threat failed for both, and the second, which comes
\* after an alert whose store failed, was sent
C39_Witness ==
    /\ last_poll.ran
    /\ ~batch_mode
    /\ Len(ViableOfPoll) = 2
    /\ EmptyId \in last_poll.ids_before
    /\ last_send.origin = "tail"
    /\ ~last_send.persisted

(***************************************************************************)
(* C40: the status of a job is visible to its owner only.  A call          *)
(* get_job_status(job_id, u) returns the job only when the user_id stored  *)
(* with the job equals u, whether the snapshot was read from Redis or from *)
(* the in-memory cache; every other caller gets None.                      *)
(***************************************************************************)
C40_OnlyOwnerSeesJob ==
    \A k \in 1..Len(asked) :
        /\ asked[k].answer # NoJob
              => /\ job_data # NoJob
                 /\ asked[k].user_id = job_data.user_id
                 /\ asked[k].answer.user_id = asked[k].user_id
        /\ (job_data # NoJob /\ asked[k].user_id # job_data.user_id)
              => asked[k].answer = NoJob

\* with Redis down, the owner was given the snapshot of the in-memory cache,
\* and then another user asked and was given None; with Redis up, the
\* same for the snapshot in Redis
C40_Witness ==
    /\ Len(asked) = 2
    /\ asked[1].redis_ok = asked[2].redis_ok
    /\ asked[1].answer # NoJob
    /\ asked[1].user_id = job_data.user_id
    /\ asked[2].user_id # job_data.user_id
    /\ asked[2].answer = NoJob
    /\ cached
    /\ redis_job # NoJob

====
